---- MODULE Spec2Model ----
(***************************************************************************)
(* clockmail_viewer (cmv): change watcher, snapshot builder and the        *)
(* navigation state machine of the terminal UI.                            *)
(*                                                                         *)
(*   internal/datasource/watch.go   Watcher (fsnotify + debounce timer)    *)
(*   internal/snapshot/snapshot.go  Build (reads of the store)             *)
(*   cmd/cmv/main.go                uiModel.Update / uiModel.View / main   *)
(*                                                                         *)
(* Ten specifications share the variables:                                 *)
(*   SpecUI       Update of the UI loop, its messages drawn from sets      *)
(*   SpecView     View applied to arbitrary (snapshot, navigation) values  *)
(*   SpecBuild    one Build racing with the store's writers and Close      *)
(*   SpecWatcher  the watcher loop, its debounce timer and its consumer    *)
(*   SpecLive     watcher -> UI loop -> background builds -> UI loop       *)
(*   SpecViewer   main in both modes: UI loop, renderer, watcher, posting  *)
(*                goroutines, background build, the agents' writes         *)
(*   SpecTimeline the Timeline and the Diagram rendered for event lists    *)
(*   SpecWrap     wrapText applied to texts and widths                     *)
(*   SpecVerdict  the views and the JSON dump that show the frontier verdict *)
(*   SpecRace     two refresh commands in flight while agents append events *)
(***************************************************************************)
EXTENDS Integers, Sequences, FiniteSets, TLC

VARIABLES
    m,          \* uiModel: the navigation state and the active snapshot
    lastMsg,    \* history: the kind of message the last Update was given
    lastCmd,    \* the tea.Cmd returned by the last Update
    uiState,    \* "running", "quitting" (tea.Quit returned), "stopped"
    frame,      \* what the last View() call produced
    crash,      \* "none", or the run-time panic that ended the process
    store,      \* the coordination store (external collaborator)
    storeHist,  \* history: every state the store has been in
    builds,     \* snapshot.Build calls: position and values read so far
    watcher,    \* Watcher: done, onChange, the debounce timer, the loop
    wHist,      \* history: the current burst of notifications
    senders     \* goroutines blocked in p.Send with a dbChangedMsg

vars == <<m, lastMsg, lastCmd, uiState, frame, crash, store, storeHist, builds,
          watcher, wHist, senders>>

-----------------------------------------------------------------------------
(* Bounds of the model *)

\* largest value time.Now() returns
MaxNow == 1
\* number of lines a rendered view can have
MaxLines == 3
\* largest scroll offset and selection index SpecView starts from
MaxStale == 4

AgentIDs == {"a1", "a2"}

\* the nil *DataSnapshot
Nil == [nil |-> TRUE]

Max(a, b) == IF a >= b THEN a ELSE b

Min(a, b) == IF a <= b THEN a ELSE b

-----------------------------------------------------------------------------
(* cmd/cmv/main.go: views and key bindings *)

viewDashboard == 0
viewMessages == 1
viewLocks == 2
viewFrontier == 3
viewTimeline == 4
viewDiagram == 5
viewCount == 6
viewAgentDetail == 7

Views == {viewDashboard, viewMessages, viewLocks, viewFrontier, viewTimeline,
          viewDiagram, viewAgentDetail}

viewKeys == [k \in {"d", "m", "l", "f", "t", "s"} |->
               CASE k = "d" -> viewDashboard
                 [] k = "m" -> viewMessages
                 [] k = "l" -> viewLocks
                 [] k = "f" -> viewFrontier
                 [] k = "t" -> viewTimeline
                 [] k = "s" -> viewDiagram]

keys == [Quit    |-> {"q", "ctrl+c"},
         Tab     |-> {"tab"},
         Refresh |-> {"r"},
         Up      |-> {"up", "k"},
         Down    |-> {"down", "j"},
         Help    |-> {"?"},
         Enter   |-> {"enter"},
         Esc     |-> {"esc"},
         Filter  |-> {"/"}]

\* the key presses the UI loop is fed; "x" is bound to nothing
KeyInputs == DOMAIN viewKeys \cup {"q", "tab", "r", "up", "down", "?", "enter",
                                    "esc", "/", "x"}

-----------------------------------------------------------------------------
(* internal/snapshot/snapshot.go: DataSnapshot *)

\* model.Agent: its id and its epoch (the round, the clock and the times of
\* an agent are left out)
Agent(id, epoch) == [ID |-> id, Epoch |-> epoch]

\* model.Pointstamp
Pointstamp(id, epoch) == [AgentID |-> id, Epoch |-> epoch]

\* Agents is the list of agents in the store's order, Events the ids of the
\* events of the snapshot (the list is ordered by id, so the set of ids
\* determines it), Locks the locked paths, Frontier a set of pointstamps,
\* FrontierStatus maps agent ids to SafeToFinalize.
DataSnapshot(agents, events, locks, frontier, fStatus, total, builtAt) ==
    [Agents         |-> agents,
     Events         |-> events,
     Locks          |-> locks,
     Frontier       |-> frontier,
     FrontierStatus |-> fStatus,
     TotalEvents    |-> total,
     ActiveLocks    |-> Cardinality(locks),
     BuiltAt        |-> builtAt]

\* the snapshots the UI is handed in SpecUI and SpecView: no agent, one
\* agent, two agents, with and without events and locks
SampleSnap(agents, n) ==
    DataSnapshot(agents, 1..n, IF n > 0 THEN {"main.go"} ELSE {}, {},
                 [a \in {} |-> TRUE], n, 0)

SampleSnaps == {SampleSnap(<<>>, 0),
                SampleSnap(<<Agent("a1", 1)>>, 1),
                SampleSnap(<<Agent("a2", 0)>>, 0),
                SampleSnap(<<Agent("a1", 1), Agent("a2", 0)>>, 0)}

\* snapshotReadyMsg{snap, err}: what snapshot.Build returned, or no snapshot
\* and no error
snapshotReadyMsg(snap, err) == [snap |-> snap, err |-> err]

SnapshotReadyInputs ==
    {snapshotReadyMsg(sn, FALSE) : sn \in SampleSnaps}
    \cup {snapshotReadyMsg(Nil, TRUE), snapshotReadyMsg(Nil, FALSE)}

-----------------------------------------------------------------------------
(* cmd/cmv/main.go: uiModel *)

newModel(snap, t) ==
    [snap          |-> snap,
     activeView    |-> viewDashboard,
     prevView      |-> viewDashboard,
     width         |-> 0,
     height        |-> 0,
     scrollPos     |-> 0,
     selectedAgent |-> 0,
     detailAgentID |-> "",
     filterAgent   |-> "",
     showHelp      |-> FALSE,
     lastRefresh   |-> t]

parseViewFlag == [f \in {"dashboard", "messages", "locks", "frontier",
                         "timeline", "diagram"} |->
                    CASE f = "dashboard" -> viewDashboard
                      [] f = "messages" -> viewMessages
                      [] f = "locks" -> viewLocks
                      [] f = "frontier" -> viewFrontier
                      [] f = "timeline" -> viewTimeline
                      [] f = "diagram" -> viewDiagram]

\* main: the model after the --view and --agent options are applied
\* (both "" when not given)
StartModel(snap, t, viewFlag, agentFlag) ==
    LET m0 == newModel(snap, t)
        m1 == IF viewFlag # ""
              THEN [m0 EXCEPT !.activeView = parseViewFlag[viewFlag]] ELSE m0
        hit == {i \in DOMAIN snap.Agents : snap.Agents[i].ID = agentFlag}
    IN  IF agentFlag # "" /\ hit # {}
        THEN LET i == CHOOSE i \in hit : \A j \in hit : i <= j
             IN  [m1 EXCEPT !.selectedAgent = i - 1,
                            !.detailAgentID = snap.Agents[i].ID,
                            !.activeView = viewAgentDetail]
        ELSE m1

\* a view switch that keeps the agent filter whatever the target
UpdateViewKeyKeepFilter(mm, k) ==
    LET v == viewKeys[k]
    IN  [mm EXCEPT !.activeView = v,
                   !.scrollPos = 0,
                   !.detailAgentID = ""]

\* a view switch that keeps the scroll offset
UpdateViewKeyKeepScroll(mm, k) ==
    LET v == viewKeys[k]
    IN  [mm EXCEPT !.activeView = v,
                   !.detailAgentID = "",
                   !.filterAgent = IF v # viewMessages /\ v # viewTimeline
                                   THEN "" ELSE @]

\* Update, case tea.KeyMsg, a key of viewKeys
UpdateViewKey(mm, k) ==
    LET v == viewKeys[k]
    IN  [mm EXCEPT !.activeView = v,
                   !.scrollPos = 0,
                   !.detailAgentID = "",
                   !.filterAgent = IF v # viewMessages /\ v # viewTimeline
                                   THEN "" ELSE @]

\* an Esc that leaves the detail agent set
UpdateEscKeepDetail(mm) ==
    IF mm.activeView = viewAgentDetail
    THEN [mm EXCEPT !.activeView = viewDashboard,
                    !.scrollPos = 0]
    ELSE mm

UpdateEsc(mm) ==
    IF mm.activeView = viewAgentDetail
    THEN [mm EXCEPT !.activeView = viewDashboard,
                    !.detailAgentID = "",
                    !.scrollPos = 0]
    ELSE mm

\* an Enter that opens the first agent whatever the selection
UpdateEnterFirst(mm) ==
    IF /\ mm.activeView = viewDashboard
       /\ Len(mm.snap.Agents) > 0
       /\ mm.selectedAgent >= 0
       /\ mm.selectedAgent < Len(mm.snap.Agents)
    THEN [mm EXCEPT !.detailAgentID = mm.snap.Agents[1].ID,
                    !.prevView = mm.activeView,
                    !.activeView = viewAgentDetail,
                    !.scrollPos = 0]
    ELSE mm

\* an Enter that opens the selected agent from any view
UpdateEnterAnywhere(mm) ==
    IF /\ Len(mm.snap.Agents) > 0
       /\ mm.selectedAgent >= 0
       /\ mm.selectedAgent < Len(mm.snap.Agents)
    THEN [mm EXCEPT !.detailAgentID = mm.snap.Agents[mm.selectedAgent + 1].ID,
                    !.prevView = mm.activeView,
                    !.activeView = viewAgentDetail,
                    !.scrollPos = 0]
    ELSE mm

\* selectedAgent counts from 0 as in the source; Agents is a 1-based sequence
UpdateEnter(mm) ==
    IF /\ mm.activeView = viewDashboard
       /\ Len(mm.snap.Agents) > 0
       /\ mm.selectedAgent >= 0
       /\ mm.selectedAgent < Len(mm.snap.Agents)
    THEN [mm EXCEPT !.detailAgentID = mm.snap.Agents[mm.selectedAgent + 1].ID,
                    !.prevView = mm.activeView,
                    !.activeView = viewAgentDetail,
                    !.scrollPos = 0]
    ELSE mm

\* a Tab that goes one view further without wrapping
UpdateTabNoWrap(mm) ==
    LET v == IF mm.activeView = viewAgentDetail
             THEN viewDashboard
             ELSE mm.activeView + 1
    IN  [mm EXCEPT !.activeView = v,
                   !.detailAgentID = IF mm.activeView = viewAgentDetail
                                     THEN "" ELSE @,
                   !.filterAgent = IF v # viewMessages /\ v # viewTimeline
                                   THEN "" ELSE @,
                   !.scrollPos = 0]

\* a Tab that keeps the agent filter whatever view it leads to
UpdateTabKeepFilter(mm) ==
    LET v == IF mm.activeView = viewAgentDetail
             THEN viewDashboard
             ELSE (mm.activeView + 1) % viewCount
    IN  [mm EXCEPT !.activeView = v,
                   !.detailAgentID = IF mm.activeView = viewAgentDetail
                                     THEN "" ELSE @,
                   !.scrollPos = 0]

\* a Tab that leaves the detail agent set when it goes back to Dashboard
UpdateTabKeepDetail(mm) ==
    LET v == IF mm.activeView = viewAgentDetail
             THEN viewDashboard
             ELSE (mm.activeView + 1) % viewCount
    IN  [mm EXCEPT !.activeView = v,
                   !.filterAgent = IF v # viewMessages /\ v # viewTimeline
                                   THEN "" ELSE @,
                   !.scrollPos = 0]

UpdateTab(mm) ==
    LET v == IF mm.activeView = viewAgentDetail
             THEN viewDashboard
             ELSE (mm.activeView + 1) % viewCount
    IN  [mm EXCEPT !.activeView = v,
                   !.detailAgentID = IF mm.activeView = viewAgentDetail
                                     THEN "" ELSE @,
                   !.filterAgent = IF v # viewMessages /\ v # viewTimeline
                                   THEN "" ELSE @,
                   !.scrollPos = 0]

UpdateUp(mm) ==
    IF mm.activeView = viewDashboard
    THEN IF mm.selectedAgent > 0
         THEN [mm EXCEPT !.selectedAgent = @ - 1] ELSE mm
    ELSE IF mm.scrollPos > 0
         THEN [mm EXCEPT !.scrollPos = @ - 1] ELSE mm

maxScroll(snap) ==
    (snap.TotalEvents + Len(snap.Agents) + Cardinality(snap.Locks)) * 8 + 20

\* a Down that goes from the last agent back to the first
UpdateDownWrap(mm) ==
    IF mm.activeView = viewDashboard
    THEN IF mm.selectedAgent < Len(mm.snap.Agents) - 1
         THEN [mm EXCEPT !.selectedAgent = @ + 1]
         ELSE [mm EXCEPT !.selectedAgent = 0]
    ELSE IF mm.scrollPos < maxScroll(mm.snap)
         THEN [mm EXCEPT !.scrollPos = @ + 1] ELSE mm

\* a Down that scrolls without an upper bound
UpdateDownUnbounded(mm) ==
    IF mm.activeView = viewDashboard
    THEN IF mm.selectedAgent < Len(mm.snap.Agents) - 1
         THEN [mm EXCEPT !.selectedAgent = @ + 1] ELSE mm
    ELSE [mm EXCEPT !.scrollPos = @ + 1]

UpdateDown(mm) ==
    IF mm.activeView = viewDashboard
    THEN IF mm.selectedAgent < Len(mm.snap.Agents) - 1
         THEN [mm EXCEPT !.selectedAgent = @ + 1] ELSE mm
    ELSE IF mm.scrollPos < maxScroll(mm.snap)
         THEN [mm EXCEPT !.scrollPos = @ + 1] ELSE mm

\* a filter toggle that stays on the last agent
UpdateFilterNoWrap(mm) ==
    IF mm.activeView = viewMessages \/ mm.activeView = viewTimeline
    THEN LET agents == mm.snap.Agents
             found == {i \in DOMAIN agents : agents[i].ID = mm.filterAgent}
             next ==
                 IF mm.filterAgent = "" /\ Len(agents) > 0
                 THEN agents[1].ID
                 ELSE IF found # {}
                      THEN LET i == CHOOSE i \in found : \A j \in found : i <= j
                           IN  agents[Min(i + 1, Len(agents))].ID
                      ELSE ""
         IN  [mm EXCEPT !.filterAgent = next, !.scrollPos = 0]
    ELSE mm

UpdateFilter(mm) ==
    IF mm.activeView = viewMessages \/ mm.activeView = viewTimeline
    THEN LET agents == mm.snap.Agents
             found == {i \in DOMAIN agents : agents[i].ID = mm.filterAgent}
             next ==
                 IF mm.filterAgent = "" /\ Len(agents) > 0
                 THEN agents[1].ID
                 ELSE IF found # {}
                      THEN LET i == CHOOSE i \in found : \A j \in found : i <= j
                           IN  IF i + 1 <= Len(agents) THEN agents[i + 1].ID ELSE ""
                      ELSE ""
         IN  [mm EXCEPT !.filterAgent = next, !.scrollPos = 0]
    ELSE mm

UpdateHelp(mm) == [mm EXCEPT !.showHelp = ~@]

\* Update, case tea.KeyMsg: the model returned
UpdateKeyMsg(mm, k) ==
    IF k \in DOMAIN viewKeys THEN UpdateViewKey(mm, k)
    ELSE IF k \in keys.Quit THEN mm
    ELSE IF k \in keys.Esc THEN UpdateEsc(mm)
    ELSE IF k \in keys.Enter THEN UpdateEnter(mm)
    ELSE IF k \in keys.Tab THEN UpdateTab(mm)
    ELSE IF k \in keys.Refresh THEN mm
    ELSE IF k \in keys.Up THEN UpdateUp(mm)
    ELSE IF k \in keys.Down THEN UpdateDown(mm)
    ELSE IF k \in keys.Filter THEN UpdateFilter(mm)
    ELSE IF k \in keys.Help THEN UpdateHelp(mm)
    ELSE mm

\* Update, case tea.KeyMsg: the command returned
KeyCmd(k) ==
    IF k \in DOMAIN viewKeys THEN "none"
    ELSE IF k \in keys.Quit THEN "quit"
    ELSE IF k \in keys.Refresh THEN "refreshSnapshot"
    ELSE "none"

UpdateWindowSize(mm, w, h) == [mm EXCEPT !.width = w, !.height = h]

\* Update, case snapshotReadyMsg
UpdateSnapshotReadyLeaky(mm, msg, t) ==
    IF msg.snap # Nil
    THEN LET n == Len(msg.snap.Agents)
         IN  [mm EXCEPT !.snap = msg.snap,
                        !.lastRefresh = t,
                        !.selectedAgent = IF n = 0 THEN 0
                                          ELSE IF @ >= n THEN n - 1 ELSE @]
    ELSE [mm EXCEPT !.lastRefresh = t]

UpdateSnapshotReadyNoClamp(mm, msg, t) ==
    IF ~msg.err /\ msg.snap # Nil
    THEN [mm EXCEPT !.snap = msg.snap, !.lastRefresh = t]
    ELSE mm

\* a snapshotReadyMsg handler that puts the view back at its top
UpdateSnapshotReadyResetScroll(mm, msg, t) ==
    IF ~msg.err /\ msg.snap # Nil
    THEN LET n == Len(msg.snap.Agents)
         IN  [mm EXCEPT !.snap = msg.snap,
                        !.lastRefresh = t,
                        !.scrollPos = 0,
                        !.selectedAgent = IF n = 0 THEN 0
                                          ELSE IF @ >= n THEN n - 1 ELSE @]
    ELSE mm

UpdateSnapshotReady(mm, msg, t) ==
    IF ~msg.err /\ msg.snap # Nil
    THEN LET n == Len(msg.snap.Agents)
         IN  [mm EXCEPT !.snap = msg.snap,
                        !.lastRefresh = t,
                        !.selectedAgent = IF n = 0 THEN 0
                                          ELSE IF @ >= n THEN n - 1 ELSE @]
    ELSE mm

-----------------------------------------------------------------------------
(* cmd/cmv/main.go: uiModel.View *)

Frame(out, first, shown) == [out |-> out, first |-> first, shown |-> shown]

NoFrame == Frame("none", 0, 0)

PanicIndex == "panic: index out of range [selectedAgent]"
PanicScroll == "panic: slice bounds out of range [scrollPos:]"
PanicHeight == "panic: slice bounds out of range [:contentHeight]"

\* the scroll offset applied to lines[scrollPos:] without the guard
\* scrollPos < len(lines), and without the clamp before it
ScrollSliceUnguarded(scrollPos, n) ==
    IF scrollPos > 0
    THEN IF scrollPos > n THEN [panic |-> TRUE, first |-> scrollPos, left |-> 0]
         ELSE [panic |-> FALSE, first |-> scrollPos, left |-> n - scrollPos]
    ELSE [panic |-> FALSE, first |-> 0, left |-> n]

\* View: the local scrollPos, clamped to the n rendered lines, and the
\* lines left by lines = lines[scrollPos:]
ScrollSlice(scrollPos, n) ==
    LET local == IF scrollPos >= n THEN Max(0, n - 1) ELSE scrollPos
    IN  IF local > 0 /\ local < n
        THEN [panic |-> local > n, first |-> local, left |-> n - local]
        ELSE [panic |-> FALSE, first |-> 0, left |-> n]

\* View with a pointer receiver that stores the clamped offset in the model
ReceiverAfterViewClamped(mm, n) ==
    IF mm.width # 0 /\ mm.scrollPos >= n
    THEN [mm EXCEPT !.scrollPos = Max(0, n - 1)]
    ELSE mm

\* the caller's model after View returned: View has a value receiver and
\* clamps a local copy of scrollPos
ReceiverAfterView(mm, n) == mm

\* View, for a model whose content renders as n lines (n >= 1:
\* strings.Split never returns an empty list). The text is not modelled.
View(mm, n) ==
    LET contentHeight == mm.height - 5 - (IF mm.showHelp THEN 3 ELSE 0)
        agents == mm.snap.Agents
        sl == ScrollSlice(mm.scrollPos, n)
        fr ==
          IF mm.width = 0 THEN Frame("Loading...", 0, 0)
          ELSE IF /\ mm.activeView = viewDashboard
                  /\ mm.width >= 120
                  /\ mm.detailAgentID = ""
                  /\ Len(agents) > 0
                  /\ mm.selectedAgent < Len(agents)
               THEN IF mm.selectedAgent + 1 \in DOMAIN agents
                    THEN Frame("split", 0, Max(0, Min(n, contentHeight)))
                    ELSE Frame(PanicIndex, 0, 0)
               ELSE IF sl.panic THEN Frame(PanicScroll, sl.first, 0)
                    ELSE IF sl.left > contentHeight
                         THEN IF contentHeight < 0
                              THEN Frame(PanicHeight, sl.first, 0)
                              ELSE Frame("lines", sl.first, contentHeight)
                         ELSE Frame("lines", sl.first, sl.left)
    IN  [m |-> ReceiverAfterView(mm, n), frame |-> fr]

-----------------------------------------------------------------------------
(* The store (github.com/daviddao/clockmail/pkg/store, an external          *)
(* collaborator) and the watcher's state                                    *)

\* Agents: the agents in registration order; Events: the event ids, lastID
\* the id of the last event inserted (ids grow, events are never deleted);
\* Locks: the locked paths; Active: the active pointstamps
Store(agents, events, lastID, locks, active) ==
    [open |-> TRUE, Agents |-> agents, Events |-> events, lastID |-> lastID,
     Locks |-> locks, Active |-> active]

EmptyStore == Store(<<>>, {}, 0, {}, {})

\* NewWatcher: the Watcher it returns, its loop started.
\* onChange counts the signals buffered in the channel; timer is "nil",
\* "armed", "stopped" or "fired", remaining the milliseconds to its expiry.
NewWatcher ==
    [done      |-> FALSE,
     watching  |-> TRUE,
     onChange  |-> 0,
     timer     |-> "nil",
     remaining |-> 0,
     cb        |-> 0,
     chClosed  |-> FALSE,
     loop      |-> "running"]

NoBurst == [n |-> 0, fromIdle |-> FALSE, tight |-> TRUE, sent |-> 0,
            dropped |-> 0, sinceLast |-> 0, last |-> "none",
            atClose |-> "open"]

-----------------------------------------------------------------------------
(* cmd/cmv/main.go: the UI loop handing one message to Update *)

UIAlive == uiState \in {"running", "quitting"} /\ crash = "none"

\* Update, keys.Quit: m.watcher.Close(); m.store.Close(); return m, tea.Quit.
\* Watcher.Close closes the done channel (closing a closed channel panics)
\* and then the fsnotify watcher.
UpdateQuit ==
    /\ m' = m
    /\ lastMsg' = "KeyMsg"
    /\ IF watcher.done
       THEN /\ crash' = "panic: close of closed channel"
            /\ UNCHANGED <<watcher, store, lastCmd, uiState>>
       ELSE /\ watcher' = [watcher EXCEPT !.done = TRUE, !.watching = FALSE]
            /\ store' = [store EXCEPT !.open = FALSE]
            /\ lastCmd' = "tea.Quit"
            /\ uiState' = "quitting"
            /\ crash' = crash

\* Update(tea.KeyMsg)
UpdateKey(k) ==
    /\ UIAlive
    /\ IF k \notin DOMAIN viewKeys /\ k \in keys.Quit
       THEN UpdateQuit
       ELSE /\ m' = UpdateKeyMsg(m, k)
            /\ lastMsg' = "KeyMsg"
            /\ lastCmd' = KeyCmd(k)
            /\ UNCHANGED <<watcher, store, uiState, crash>>

\* Update(tea.WindowSizeMsg)
UpdateResize(w, h) ==
    /\ UIAlive
    /\ m' = UpdateWindowSize(m, w, h)
    /\ lastMsg' = "WindowSizeMsg"
    /\ lastCmd' = "none"
    /\ UNCHANGED <<watcher, store, uiState, crash>>

\* Update(dbChangedMsg): return m, m.refreshSnapshot()
UpdateDbChanged ==
    /\ UIAlive
    /\ m' = m
    /\ lastMsg' = "dbChangedMsg"
    /\ lastCmd' = "refreshSnapshot"
    /\ UNCHANGED <<watcher, store, uiState, crash>>

MsgKind(msg) ==
    IF msg.err THEN "snapshotReadyMsg{err}"
    ELSE IF msg.snap = Nil THEN "snapshotReadyMsg{}"
    ELSE "snapshotReadyMsg{snap}"

\* Update(snapshotReadyMsg), time.Now() returning t
UpdateSnapshot(msg, t) ==
    /\ UIAlive
    /\ m' = UpdateSnapshotReady(m, msg, t)
    /\ lastMsg' = MsgKind(msg)
    /\ lastCmd' = "none"
    /\ UNCHANGED <<watcher, store, uiState, crash>>

\* Update(tickMsg): return m, tickEvery()
UpdateTick ==
    /\ UIAlive
    /\ m' = m
    /\ lastMsg' = "tickMsg"
    /\ lastCmd' = "tickEvery"
    /\ UNCHANGED <<watcher, store, uiState, crash>>

\* the tea.Program receives the QuitMsg of tea.Quit and stops its loop
ProgramQuits ==
    /\ uiState = "quitting"
    /\ crash = "none"
    /\ uiState' = "stopped"
    /\ UNCHANGED <<m, lastMsg, lastCmd, watcher, store, crash>>

\* the window sizes View is applied to, and the one a resize message of
\* SpecUI delivers
WindowSizes == {<<80, 24>>, <<80, 6>>, <<120, 24>>, <<120, 3>>}

ResizeInputs == {<<120, 24>>}

nonUI == <<frame, storeHist, builds, wHist, senders>>

UIKey == \E k \in KeyInputs : UpdateKey(k) /\ UNCHANGED nonUI

UIResize == \E sz \in ResizeInputs : UpdateResize(sz[1], sz[2]) /\ UNCHANGED nonUI

UIDbChanged == UpdateDbChanged /\ UNCHANGED nonUI

\* time.Now() never runs backwards
UISnapshotReady ==
    \E msg \in SnapshotReadyInputs, t \in 0..MaxNow :
        /\ t >= m.lastRefresh
        /\ UpdateSnapshot(msg, t)
        /\ UNCHANGED nonUI

UITick == UpdateTick /\ UNCHANGED nonUI

UIQuits == ProgramQuits /\ UNCHANGED nonUI

\* main: the snapshot built at startup and the --view / --agent options
InitUI ==
    /\ \E sn \in SampleSnaps, vf \in {"", "timeline"}, af \in {"", "a2", "zz"} :
           m = StartModel(sn, 0, vf, af)
    /\ lastMsg = "none"
    /\ lastCmd = "none"
    /\ uiState = "running"
    /\ frame = NoFrame
    /\ crash = "none"
    /\ store = EmptyStore
    /\ storeHist = <<>>
    /\ builds = <<>>
    /\ watcher = NewWatcher
    /\ wHist = NoBurst
    /\ senders = {}

NextUI ==
    \/ UIKey
    \/ UIResize
    \/ UIDbChanged
    \/ UISnapshotReady
    \/ UITick
    \/ UIQuits

SpecUI == InitUI /\ [][NextUI]_vars

-----------------------------------------------------------------------------
(* View applied to every model of a bounded set, reachable or not *)

StaleValues == 0..MaxStale \cup {9999}

InitView ==
    /\ \E sn \in SampleSnaps, v \in Views, sz \in WindowSizes \cup {<<0, 0>>},
          sp \in StaleValues, sel \in 0..MaxStale, d \in {"", "a1"},
          h \in BOOLEAN :
           m = [newModel(sn, 0) EXCEPT !.activeView = v,
                                       !.width = sz[1],
                                       !.height = sz[2],
                                       !.scrollPos = sp,
                                       !.selectedAgent = sel,
                                       !.detailAgentID = d,
                                       !.showHelp = h]
    /\ lastMsg = "none"
    /\ lastCmd = "none"
    /\ uiState = "running"
    /\ frame = NoFrame
    /\ crash = "none"
    /\ store = EmptyStore
    /\ storeHist = <<>>
    /\ builds = <<>>
    /\ watcher = NewWatcher
    /\ wHist = NoBurst
    /\ senders = {}

\* the program's renderer calls View()
Render ==
    /\ UIAlive
    /\ \E n \in 1..MaxLines :
           /\ frame' = View(m, n).frame
           /\ m' = View(m, n).m
    /\ UNCHANGED <<lastMsg, lastCmd, uiState, crash, store, storeHist, builds,
                   watcher, wHist, senders>>

NextView == Render

SpecView == InitView /\ [][NextView]_vars

-----------------------------------------------------------------------------
(* Properties of the UI loop (SpecUI) and of View (SpecView) *)

FailedBuildMsgs == {msg \in SnapshotReadyInputs : msg.err \/ msg.snap = Nil}

\* C6: a step that hands Update the result of a failed build (an error, or
\* no snapshot) leaves the whole model unchanged, so the active snapshot,
\* the selection and the last-refresh time stay, and the program neither
\* stops nor panics; and every step that replaces the active snapshot
\* installs the snapshot of a build that returned no error.
C6_FailedBuildKeepsSnapshot ==
    [][/\ (\E msg \in FailedBuildMsgs, t \in 0..MaxNow : UpdateSnapshot(msg, t))
          => /\ m' = m
             /\ uiState' = uiState
             /\ crash' = crash
       /\ m'.snap # m.snap
          => \E msg \in SnapshotReadyInputs :
                 ~msg.err /\ msg.snap # Nil /\ m'.snap = msg.snap]_vars

\* a failed build was handed to Update while a snapshot with agents was
\* active and the second agent selected, and the UI is still running
C6_Witness ==
    /\ lastMsg = "snapshotReadyMsg{err}"
    /\ uiState = "running"
    /\ crash = "none"
    /\ Len(m.snap.Agents) = 2
    /\ m.selectedAgent = 1

\* C7: in every reachable state of the UI the selection index is within
\* the agent list of the active snapshot, or 0 when that list is empty
C7_SelectedAgentInRange ==
    LET n == Len(m.snap.Agents)
    IN  IF n = 0 THEN m.selectedAgent = 0
        ELSE 0 <= m.selectedAgent /\ m.selectedAgent < n

\* a snapshot with one agent has just replaced the active one, and the
\* selection is on its only agent
C7_Witness ==
    /\ lastMsg = "snapshotReadyMsg{snap}"
    /\ Len(m.snap.Agents) = 1
    /\ m.selectedAgent = 0
    /\ m.lastRefresh > 0

-----------------------------------------------------------------------------
(* internal/snapshot/snapshot.go: Build, one store read per step *)

\* bound: the writes the store's writers perform during a run
MaxWrites == 2

eventLimit == 500

\* store.MaxEventID: the highest event id, 0 without events. It returns no
\* error: on a closed store the model takes it to return 0.
MaxEventID(st) == IF st.open THEN st.lastID ELSE 0

\* store.CountEvents: the number of events. It returns no error either.
CountEvents(st) == IF st.open THEN Cardinality(st.Events) ELSE 0

\* store.ListEventsSinceID(sinceID, limit): the events with an id above
\* sinceID in ascending order of id, at most limit of them
ListEventsSinceID(st, sinceID, limit) ==
    LET cand == {id \in st.Events : id > sinceID}
    IN  IF Cardinality(cand) <= limit THEN cand
        ELSE {id \in cand : Cardinality({j \in cand : j < id}) < limit}

\* ListEvents(0, 500): the oldest events instead of the newest
SinceIDFromZero(maxID) == 0

\* Build: sinceID := maxID - eventLimit, at least 0
SinceID(maxID) == IF maxID - eventLimit < 0 THEN 0 ELSE maxID - eventLimit

\* frontier.ComputeFrontier: the minimal active pointstamps
ComputeFrontier(active) ==
    {p \in active : ~\E q \in active : q.Epoch < p.Epoch}

\* a verdict that also counts the agent's own pointstamp
ComputeFrontierStatusWithSelf(id, epoch, active) ==
    ~\E p \in active : p.Epoch <= epoch

\* frontier.ComputeFrontierStatus(id, ts, active).SafeToFinalize: no other
\* agent's active pointstamp is behind or equal to ts
ComputeFrontierStatus(id, epoch, active) ==
    ~\E p \in active : p.AgentID # id /\ p.Epoch <= epoch

\* Build: the DataSnapshot assembled from the values read
Assemble(agents, events, locks, active, total, t) ==
    DataSnapshot(agents, events, locks, ComputeFrontier(active),
                 [id \in {agents[i].ID : i \in DOMAIN agents} |->
                     LET i == CHOOSE i \in DOMAIN agents : agents[i].ID = id
                     IN  ComputeFrontierStatus(id, agents[i].Epoch, active)],
                 total, t)

\* a Build call: pc names the next read ("idle" before the call, "done"
\* after it returned snap and err); vStart and vMax are history, the index
\* in storeHist of the store state at the call and at the MaxEventID read;
\* failed is history, whether a read of this call failed
IdleBuild ==
    [pc |-> "idle", agents |-> <<>>, maxID |-> 0, events |-> {}, locks |-> {},
     active |-> {}, snap |-> Nil, err |-> FALSE, vStart |-> 0, vMax |-> 0,
     failed |-> FALSE]

BuildFails(b) ==
    [b EXCEPT !.pc = "done", !.snap = Nil, !.err = TRUE, !.failed = TRUE]

\* the caller invokes snapshot.Build(s)
BuildStart(i) ==
    /\ builds[i].pc = "idle"
    /\ builds' = [builds EXCEPT ![i] = [IdleBuild EXCEPT !.pc = "ListAgents",
                                           !.vStart = Len(storeHist)]]

\* agents, err := s.ListAgents()
BuildListAgents(i) ==
    /\ builds[i].pc = "ListAgents"
    /\ builds' = [builds EXCEPT ![i] =
                     IF store.open
                     THEN [@ EXCEPT !.pc = "MaxEventID", !.agents = store.Agents]
                     ELSE BuildFails(@)]

\* maxID := s.MaxEventID()
BuildMaxEventID(i) ==
    /\ builds[i].pc = "MaxEventID"
    /\ builds' = [builds EXCEPT ![i] =
                     [@ EXCEPT !.pc = "ListEventsSinceID",
                               !.maxID = MaxEventID(store),
                               !.vMax = Len(storeHist),
                               !.failed = @ \/ ~store.open]]

\* events, err := s.ListEventsSinceID(sinceID, eventLimit)
BuildListEvents(i) ==
    /\ builds[i].pc = "ListEventsSinceID"
    /\ builds' = [builds EXCEPT ![i] =
                     IF store.open
                     THEN [@ EXCEPT !.pc = "ListLocks",
                                    !.events = ListEventsSinceID(
                                        store, SinceID(builds[i].maxID), eventLimit)]
                     ELSE BuildFails(@)]

\* locks, err := s.ListLocks()
BuildListLocks(i) ==
    /\ builds[i].pc = "ListLocks"
    /\ builds' = [builds EXCEPT ![i] =
                     IF store.open
                     THEN [@ EXCEPT !.pc = "GetActivePointstamps",
                                    !.locks = store.Locks]
                     ELSE BuildFails(@)]

\* active, err := s.GetActivePointstamps()
BuildGetActive(i) ==
    /\ builds[i].pc = "GetActivePointstamps"
    /\ builds' = [builds EXCEPT ![i] =
                     IF store.open
                     THEN [@ EXCEPT !.pc = "CountEvents", !.active = store.Active]
                     ELSE BuildFails(@)]

\* return &DataSnapshot{..., TotalEvents: int(s.CountEvents()),
\* BuiltAt: time.Now()}, nil
BuildReturn(i, t) ==
    /\ builds[i].pc = "CountEvents"
    /\ builds' = [builds EXCEPT ![i] =
                     [@ EXCEPT !.pc = "done",
                               !.failed = @ \/ ~store.open,
                               !.snap = Assemble(builds[i].agents,
                                                 builds[i].events,
                                                 builds[i].locks,
                                                 builds[i].active,
                                                 CountEvents(store), t)]]

\* the next read of Build call i
BuildStep(i) ==
    \/ BuildListAgents(i)
    \/ BuildMaxEventID(i)
    \/ BuildListEvents(i)
    \/ BuildListLocks(i)
    \/ BuildGetActive(i)
    \/ \E t \in 0..MaxNow : BuildReturn(i, t)

\* Build run against one state of the store, every read at one instant
BuildAt(st, t) ==
    Assemble(st.Agents,
             ListEventsSinceID(st, SinceID(MaxEventID(st)), eventLimit),
             st.Locks, st.Active, CountEvents(st), t)

-----------------------------------------------------------------------------
(* The store's writers: the agents of the coordination system *)

CanWrite == store.open /\ Len(storeHist) <= MaxWrites

Written(st) ==
    /\ store' = st
    /\ storeHist' = Append(storeHist, st)

\* an agent registers: a row in the agent list and an active pointstamp
RegisterAgent(a) ==
    /\ CanWrite
    /\ \A i \in DOMAIN store.Agents : store.Agents[i].ID # a
    /\ Written([store EXCEPT !.Agents = Append(@, Agent(a, 0)),
                             !.Active = @ \cup {Pointstamp(a, 0)}])

\* an agent appends an event; the store assigns the next id, or skips one
InsertEvent(skip) ==
    /\ CanWrite
    /\ LET id == store.lastID + 1 + skip
       IN  Written([store EXCEPT !.Events = @ \cup {id}, !.lastID = id])

\* an agent takes or releases the lock on a path
ToggleLock(path) ==
    /\ CanWrite
    /\ Written([store EXCEPT !.Locks = IF path \in @ THEN @ \ {path}
                                       ELSE @ \cup {path}])

\* a registered agent advances its epoch: its row and its pointstamp
AdvanceEpoch(i) ==
    /\ CanWrite
    /\ i \in DOMAIN store.Agents
    /\ store.Agents[i].Epoch < 1
    /\ LET ag == store.Agents[i]
       IN  Written([store EXCEPT
               !.Agents[i] = Agent(ag.ID, ag.Epoch + 1),
               !.Active = (@ \ {Pointstamp(ag.ID, ag.Epoch)})
                          \cup {Pointstamp(ag.ID, ag.Epoch + 1)}])

\* m.store.Close() of the quit key, while a build may be in flight
StoreCloses ==
    /\ store.open
    /\ store' = [store EXCEPT !.open = FALSE]
    /\ UNCHANGED storeHist

-----------------------------------------------------------------------------
(* One Build racing with the writers and with Close *)

\* the event ids the store holds at startup: none, a few, exactly the
\* limit, one more, and more than the limit with a gap in the ids
\* (each with the id of its last event)
InitEventSets == {<<{}, 0>>, <<1..2, 2>>, <<1..eventLimit, eventLimit>>,
                  <<1..(eventLimit + 1), eventLimit + 1>>,
                  <<(1..300) \cup (400..700), 700>>}

InitStores ==
    {Store(ags, ev[1], ev[2], {},
           {Pointstamp(ags[i].ID, ags[i].Epoch) : i \in DOMAIN ags}) :
        ags \in {<<>>, <<Agent("a1", 1), Agent("a2", 0)>>},
        ev \in InitEventSets}

buildFrame == <<m, lastMsg, lastCmd, uiState, frame, crash, watcher, wHist,
                senders>>

InitBuild ==
    /\ store \in InitStores
    /\ storeHist = <<store>>
    /\ builds = <<IdleBuild>>
    /\ m = newModel(Nil, 0)
    /\ lastMsg = "none"
    /\ lastCmd = "none"
    /\ uiState = "running"
    /\ frame = NoFrame
    /\ crash = "none"
    /\ watcher = NewWatcher
    /\ wHist = NoBurst
    /\ senders = {}

BStart == BuildStart(1) /\ UNCHANGED <<store, storeHist, buildFrame>>

BStep == BuildStep(1) /\ UNCHANGED <<store, storeHist, buildFrame>>

BRegister == \E a \in AgentIDs : RegisterAgent(a) /\ UNCHANGED <<builds, buildFrame>>

BInsert == \E skip \in {0, 1} : InsertEvent(skip) /\ UNCHANGED <<builds, buildFrame>>

BLock == ToggleLock("main.go") /\ UNCHANGED <<builds, buildFrame>>

BEpoch == \E i \in 1..2 : AdvanceEpoch(i) /\ UNCHANGED <<builds, buildFrame>>

BClose == StoreCloses /\ UNCHANGED <<builds, buildFrame>>

NextBuild ==
    \/ BStart
    \/ BStep
    \/ BRegister
    \/ BInsert
    \/ BLock
    \/ BEpoch
    \/ BClose

SpecBuild == InitBuild /\ [][NextBuild]_vars

-----------------------------------------------------------------------------
(* Properties of Build (SpecBuild) *)

DoneBuilds == {i \in DOMAIN builds : builds[i].pc = "done"}

\* C4: every snapshot Build returns, all of its reads having succeeded, is
\* the snapshot of one state the store was in between the call and the
\* return: its agents, events, locks, frontier, verdicts and counts agree
\* with that single state
C4_SnapshotIsPointInTime ==
    \A i \in DoneBuilds :
        LET b == builds[i]
        IN  (~b.err /\ ~b.failed)
            => \E v \in b.vStart..Len(storeHist) :
                   b.snap = BuildAt(storeHist[v], b.snap.BuiltAt)

\* C5: a Build one of whose reads failed returns an error and no snapshot
C5_FailedReadAbortsBuild ==
    \A i \in DoneBuilds :
        builds[i].failed => builds[i].err /\ builds[i].snap = Nil

\* C10: the events of every snapshot Build returns are at most eventLimit,
\* they include the event with the highest id of the store as Build read
\* it (the state at its MaxEventID read) whenever that store has events,
\* and every event of that store left out is older than every event kept
C10_NewestEventsRetained ==
    \A i \in DoneBuilds :
        LET b == builds[i]
            anchor == storeHist[b.vMax]
        IN  ~b.err
            => /\ Cardinality(b.snap.Events) <= eventLimit
               /\ anchor.Events # {} => anchor.lastID \in b.snap.Events
               /\ \A e \in anchor.Events \ b.snap.Events :
                      \A e2 \in b.snap.Events : e < e2

\* a snapshot of a store holding more events than the limit, with a gap in
\* the ids, built while a writer inserted an event after the MaxEventID read
C10_Witness ==
    \E i \in DoneBuilds :
        LET b == builds[i]
            anchor == storeHist[b.vMax]
        IN  /\ ~b.err
            /\ Cardinality(anchor.Events) > eventLimit
            /\ 350 \notin anchor.Events
            /\ anchor.Events \ b.snap.Events # {}
            /\ b.snap.Events \ anchor.Events # {}

-----------------------------------------------------------------------------
(* Watcher (internal/datasource/watch.go)                                  *)
(*                                                                         *)
(* Time is counted in milliseconds and passes in the steps of TimeSteps.   *)
(* A timer that is due expires before time passes any further, and the     *)
(* goroutine AfterFunc starts for the callback runs before time passes,    *)
(* but both interleave freely with the loop, the consumer and Close.       *)

\* NewWatcher: debounce: 100 * time.Millisecond
debounce == 100

\* NewWatcher: onChange: make(chan struct{}, 1)
onChangeCap == 1

\* the amounts by which time passes in one step
TimeSteps == {25, 50}

\* longest burst of notifications against one pending timer
MaxBurst == 3

\* a file name is the sequence of the pieces it is concatenated from
dbBase == <<"clockmail.db">>

dbPath == [dir |-> ".clockmail", base |-> dbBase]

\* filepath.Base
Base(path) == path.base

\* the notifications fsnotify delivers for the watched directory
FsEvents ==
    { [Name |-> [dir |-> ".clockmail", base |-> b], Op |-> op] :
        b  \in {dbBase, dbBase \o <<"-wal">>, dbBase \o <<"-shm">>,
                dbBase \o <<"-journal">>, <<"notes.txt">>},
        op \in {{"Write"}, {"Create"}, {"Chmod"}, {"Remove"},
                {"Write", "Chmod"}} }

\* a loop that filters on the file name only
RelevantAnyOp(ev) ==
    ~ ( /\ Base(ev.Name) # Base(dbPath)
        /\ Base(ev.Name) # Base(dbPath) \o <<"-wal">>
        /\ Base(ev.Name) # Base(dbPath) \o <<"-shm">> )

\* loop: the two filters a notification passes before it arms the timer
Relevant(ev) ==
    /\ ~ ( /\ Base(ev.Name) # Base(dbPath)
           /\ Base(ev.Name) # Base(dbPath) \o <<"-wal">>
           /\ Base(ev.Name) # Base(dbPath) \o <<"-shm">> )
    /\ ev.Op \cap {"Write", "Create"} # {}

\* a timer callback that sends whether or not the channel has room
SendUnconditional(ch) == ch + 1

\* select { case w.onChange <- struct{}{}: default: }
SendNonBlocking(ch) == IF ch < onChangeCap THEN ch + 1 ELSE ch

\* a loop that leaves a pending timer as it is
ArmTimerKeepPending(w) ==
    IF w.timer = "armed" THEN w
    ELSE [w EXCEPT !.timer = "armed", !.remaining = debounce]

\* if timer != nil { timer.Stop() }; timer = time.AfterFunc(w.debounce, ...)
\* Stop on a timer that has expired does not take back its callback (cb).
ArmTimer(w) == [w EXCEPT !.timer = "armed", !.remaining = debounce]

\* the watcher has nothing pending: no timer armed, no callback to run
WatcherIdle(w) == w.timer # "armed" /\ w.cb = 0

\* history of the burst after one more notification has armed the timer
BurstAfter(w, h) ==
    IF WatcherIdle(w)
    THEN [h EXCEPT !.n = 1, !.fromIdle = (w.onChange = 0), !.tight = TRUE,
                   !.sent = 0, !.dropped = 0, !.sinceLast = 0,
                   !.last = "armed"]
    ELSE [h EXCEPT !.n = h.n + 1,
                   !.tight = h.tight /\ h.sinceLast < debounce,
                   !.sinceLast = 0, !.last = "armed"]

wOther == <<m, lastMsg, lastCmd, uiState, frame, crash, store, storeHist,
            builds, senders>>

\* loop, case event := <-w.watcher.Events: what it does to the watcher
LoopHandles(ev) ==
    /\ watcher.loop = "running"
    /\ IF Relevant(ev)
       THEN /\ WatcherIdle(watcher) \/ wHist.n < MaxBurst
            /\ watcher' = ArmTimer(watcher)
            /\ wHist' = BurstAfter(watcher, wHist)
       ELSE /\ watcher' = watcher
            /\ wHist' = [wHist EXCEPT !.last = "ignored"]

LoopEvent(ev) == LoopHandles(ev) /\ UNCHANGED wOther

\* loop, case _, ok := <-w.watcher.Errors with ok true
LoopError ==
    /\ watcher.loop = "running"
    /\ watcher.watching
    /\ wHist' = [wHist EXCEPT !.last = "error"]
    /\ UNCHANGED <<watcher, wOther>>

\* loop, case <-w.done, or a channel of the closed fsnotify watcher
LoopReturn ==
    /\ watcher.loop = "running"
    /\ watcher.done
    /\ watcher' = [watcher EXCEPT !.loop = "returned"]
    /\ UNCHANGED <<wHist, wOther>>

\* the runtime: the armed timer is due and starts its callback
TimerExpire ==
    /\ watcher.timer = "armed"
    /\ watcher.remaining = 0
    /\ watcher' = [watcher EXCEPT !.timer = "fired", !.cb = watcher.cb + 1]
    /\ UNCHANGED <<wHist, wOther>>

\* the function given to time.AfterFunc; a send on a closed channel panics
TimerCallback ==
    /\ watcher.cb > 0
    /\ crash = "none"
    /\ IF watcher.chClosed
       THEN /\ crash' = "panic: send on closed channel"
            /\ watcher' = [watcher EXCEPT !.cb = watcher.cb - 1]
            /\ wHist' = wHist
       ELSE LET ch == SendNonBlocking(watcher.onChange)
            IN  /\ watcher' = [watcher EXCEPT !.cb = watcher.cb - 1,
                                              !.onChange = ch]
                /\ wHist' = IF ch > watcher.onChange
                            THEN [wHist EXCEPT !.sent = Min(wHist.sent + 1, 2)]
                            ELSE [wHist EXCEPT !.dropped = 1]
                /\ crash' = crash
    /\ UNCHANGED <<m, lastMsg, lastCmd, uiState, frame, store, storeHist,
                   builds, senders>>

\* time passes by d milliseconds
Advance(d) ==
    /\ watcher.cb = 0
    /\ watcher.timer = "armed" => d <= watcher.remaining
    /\ watcher' = IF watcher.timer = "armed"
                  THEN [watcher EXCEPT !.remaining = watcher.remaining - d]
                  ELSE watcher
    /\ wHist' = IF wHist.n > 0
                THEN [wHist EXCEPT !.sinceLast = Min(wHist.sinceLast + d, debounce)]
                ELSE wHist
    /\ UNCHANGED wOther

\* a receive from Changes()
ChangesRecv ==
    /\ watcher.onChange > 0
    /\ watcher' = [watcher EXCEPT !.onChange = watcher.onChange - 1]
    /\ UNCHANGED <<wHist, wOther>>

\* what the watcher had pending when Close was called
PendingAt(w) ==
    IF w.cb > 0 THEN "firing"
    ELSE IF w.timer = "armed" THEN "pending"
    ELSE IF w.onChange > 0 THEN "signalled"
    ELSE "idle"

\* a Close that closes the output channel as well
WatcherCloseBoth ==
    /\ ~watcher.done
    /\ watcher' = [watcher EXCEPT !.done = TRUE, !.watching = FALSE,
                                  !.chClosed = TRUE]
    /\ wHist' = [wHist EXCEPT !.atClose = PendingAt(watcher),
                              !.last = "closed"]
    /\ UNCHANGED wOther

\* Close, called once by the owner of the watcher: close(w.done) and the
\* Close of the fsnotify watcher
WatcherClose ==
    /\ ~watcher.done
    /\ watcher' = [watcher EXCEPT !.done = TRUE, !.watching = FALSE]
    /\ wHist' = [wHist EXCEPT !.atClose = PendingAt(watcher),
                              !.last = "closed"]
    /\ UNCHANGED wOther

InitWatcher ==
    /\ watcher = NewWatcher
    /\ wHist = NoBurst
    /\ store = EmptyStore
    /\ storeHist = <<>>
    /\ builds = <<>>
    /\ m = newModel(Nil, 0)
    /\ lastMsg = "none"
    /\ lastCmd = "none"
    /\ uiState = "running"
    /\ frame = NoFrame
    /\ crash = "none"
    /\ senders = {}

WEvent == \E ev \in FsEvents : LoopEvent(ev)

WAdvance == \E d \in TimeSteps : Advance(d)

NextWatcher ==
    \/ WEvent
    \/ LoopError
    \/ LoopReturn
    \/ TimerExpire
    \/ TimerCallback
    \/ WAdvance
    \/ ChangesRecv
    \/ WatcherClose

\* time passes, a due timer expires, a started callback runs, and the loop
\* takes the case of its select that a closed done channel keeps ready
SpecWatcher ==
    /\ InitWatcher
    /\ [][NextWatcher]_vars
    /\ WF_vars(WAdvance)
    /\ WF_vars(TimerExpire)
    /\ WF_vars(TimerCallback)
    /\ WF_vars(LoopReturn)

\* C1: a burst of relevant notifications that starts with the watcher idle
\* and the channel empty, each notification less than the debounce duration
\* after the one before, gives one signal for the whole burst: none while the
\* timer is pending, one once it has run, sent no sooner than the debounce
\* duration after the last notification, and the signal does come unless
\* another notification extends the burst.
C1_BurstSettled ==
    wHist.fromIdle /\ wHist.tight /\ wHist.n > 0 /\ WatcherIdle(watcher)

C1_BurstSafe ==
    (wHist.fromIdle /\ wHist.tight /\ wHist.n > 0)
        => /\ wHist.sent <= 1
           /\ wHist.dropped = 0
           /\ wHist.sent = 1 => wHist.sinceLast >= debounce
           /\ ~WatcherIdle(watcher) => wHist.sent = 0
           /\ WatcherIdle(watcher) => wHist.sent = 1

C1_DebounceOneSignal ==
    /\ []C1_BurstSafe
    /\ \A k \in 1..MaxBurst :
           (wHist.fromIdle /\ wHist.tight /\ wHist.n = k /\ wHist.sent = 0)
               ~> (wHist.n # k \/ ~wHist.tight
                     \/ (C1_BurstSettled /\ wHist.sent = 1))

C1_Witness ==
    /\ C1_BurstSettled
    /\ wHist.n = MaxBurst
    /\ wHist.sent = 1
    /\ watcher.onChange = 1

\* C2: the output channel never holds more than one signal; a callback that
\* finds the signal of an earlier firing still unconsumed can always run, and
\* running it leaves the channel as it was.
C2_AtMostOnePending ==
    /\ [](watcher.onChange \in 0..1)
    /\ [](watcher.cb > 0 => ENABLED TimerCallback)
    /\ [][(watcher'.cb < watcher.cb /\ watcher.onChange = 1)
             => (watcher'.onChange = 1 /\ wHist'.dropped = 1)]_vars

C2_Witness ==
    /\ wHist.dropped = 1
    /\ watcher.onChange = 1
    /\ watcher.cb = 0
    /\ wHist.sent = 0

-----------------------------------------------------------------------------
(* The running viewer (main): the forwarder and the polling goroutine post *)
(* dbChangedMsg with p.Send, which blocks until the UI loop takes the      *)
(* message; Update answers with refreshSnapshot, a command the runtime     *)
(* runs in the background and whose snapshotReadyMsg it posts back.  One   *)
(* background build is in flight at a time: the UI loop takes the next     *)
(* dbChangedMsg once the build before it has reported.                     *)

\* the one notification the directory gives in this specification
walWrite == [Name |-> [dir |-> ".clockmail", base |-> dbBase \o <<"-wal">>],
             Op |-> {"Write"}]

\* a dbChangedMsg handler that returns no command
refreshNothing(i) ==
    /\ builds[i].pc = "idle"
    /\ builds' = builds

\* a dbChangedMsg handler that runs the build itself before it returns
refreshSynchronous(i) ==
    /\ builds[i].pc = "idle"
    /\ builds' = [builds EXCEPT ![i] =
                     [IdleBuild EXCEPT !.pc = "done",
                                       !.vStart = Len(storeHist),
                                       !.vMax = Len(storeHist),
                                       !.snap = BuildAt(store, m.lastRefresh)]]

\* refreshSnapshot: the returned command calls snapshot.Build(m.store)
refreshSnapshot(i) == BuildStart(i)

\* go func() { for range w.Changes() { p.Send(dbChangedMsg{}) } }()
FwdRecv ==
    /\ "fwd" \notin senders
    /\ watcher.onChange > 0
    /\ watcher' = [watcher EXCEPT !.onChange = watcher.onChange - 1]
    /\ senders' = senders \cup {"fwd"}
    /\ UNCHANGED <<m, lastMsg, lastCmd, uiState, frame, crash, store,
                   storeHist, builds, wHist>>

\* go func() { ... for range ticker.C { p.Send(dbChangedMsg{}) } }()
PollTick ==
    /\ "poll" \notin senders
    /\ senders' = senders \cup {"poll"}
    /\ UNCHANGED <<m, lastMsg, lastCmd, uiState, frame, crash, store,
                   storeHist, builds, watcher, wHist>>

\* the UI loop takes a dbChangedMsg; the command of Update is started
LoopDbChanged ==
    /\ \E s \in senders : senders' = senders \ {s}
    /\ UpdateDbChanged
    /\ \E i \in DOMAIN builds :
           /\ \A j \in 1..(i - 1) : builds[j].pc # "idle"
           /\ refreshSnapshot(i)
    /\ UNCHANGED <<frame, storeHist, wHist>>

\* the UI loop takes the snapshotReadyMsg of the finished command i
\* (the clock stands still in this specification)
LoopSnapshotReady(i) ==
    /\ builds[i].pc = "done"
    /\ UpdateSnapshot(snapshotReadyMsg(builds[i].snap, builds[i].err),
                      m.lastRefresh)
    /\ builds' = [builds EXCEPT ![i] = IdleBuild]
    /\ UNCHANGED <<frame, storeHist, wHist, senders>>

liveFrame == <<m, lastMsg, lastCmd, uiState, frame, crash, senders>>

\* a background build that clears the pointstamps as it reads
LBuildStepTouching(i) ==
    /\ \/ BuildListAgents(i)
       \/ BuildMaxEventID(i)
       \/ BuildListEvents(i)
       \/ BuildListLocks(i)
       \/ BuildGetActive(i)
       \/ BuildReturn(i, m.lastRefresh)
    /\ store' = [store EXCEPT !.Active = {}]
    /\ UNCHANGED <<storeHist, watcher, wHist, liveFrame>>

\* the next read of the background build i
LBuildStep(i) ==
    /\ \/ BuildListAgents(i)
       \/ BuildMaxEventID(i)
       \/ BuildListEvents(i)
       \/ BuildListLocks(i)
       \/ BuildGetActive(i)
       \/ BuildReturn(i, m.lastRefresh)
    /\ UNCHANGED <<store, storeHist, watcher, wHist, liveFrame>>

\* an agent appends an event and the directory notifies the watcher
LInsertNotified ==
    /\ InsertEvent(0)
    /\ LoopHandles(walWrite)
    /\ UNCHANGED <<builds, liveFrame>>

\* an agent appends an event and the notification is lost
LInsertMissed ==
    /\ InsertEvent(0)
    /\ UNCHANGED <<builds, watcher, wHist, liveFrame>>

LAdvance == Advance(debounce)

InitLive ==
    /\ store = EmptyStore
    /\ storeHist = <<store>>
    /\ builds = <<IdleBuild>>
    /\ m = newModel(BuildAt(store, 0), 0)
    /\ lastMsg = "none"
    /\ lastCmd = "none"
    /\ uiState = "running"
    /\ frame = NoFrame
    /\ crash = "none"
    /\ watcher = NewWatcher
    /\ wHist = NoBurst
    /\ senders = {}

LSnapshotReady == \E i \in DOMAIN builds : LoopSnapshotReady(i)

LBuild == \E i \in DOMAIN builds : LBuildStep(i)

NextLive ==
    \/ LInsertNotified
    \/ LInsertMissed
    \/ LAdvance
    \/ TimerExpire
    \/ TimerCallback
    \/ FwdRecv
    \/ PollTick
    \/ LoopDbChanged
    \/ LSnapshotReady
    \/ LBuild

\* the watcher's timer, the two posting goroutines, the UI loop and every
\* background build keep taking their steps
SpecLive ==
    /\ InitLive
    /\ [][NextLive]_vars
    /\ WF_vars(LAdvance)
    /\ WF_vars(TimerExpire)
    /\ WF_vars(TimerCallback)
    /\ WF_vars(FwdRecv)
    /\ WF_vars(PollTick)
    /\ WF_vars(LoopDbChanged)
    /\ WF_vars(LSnapshotReady)
    /\ WF_vars(LBuild)

\* the active snapshot is the one Build gives for the k-th state of the store
Installed(k) ==
    /\ m.snap # Nil
    /\ m.snap = BuildAt(storeHist[k], m.snap.BuiltAt)

\* C3: once the store has received its last write (its k-th state stays), a
\* snapshot built from that state is eventually the UI's active snapshot.
C3_EventualRefresh ==
    \A k \in 1..(MaxWrites + 1) :
        <>[](Len(storeHist) = k) => <>(Len(storeHist) = k /\ Installed(k))

C3_Witness ==
    /\ Len(storeHist) = MaxWrites + 1
    /\ Installed(Len(storeHist))
    /\ lastMsg = "snapshotReadyMsg{snap}"
    /\ wHist.dropped = 1

-----------------------------------------------------------------------------
(* The whole viewer against the agents that write the store: main in its   *)
(* two modes (the terminal UI, and --json: build, print, exit), the UI     *)
(* loop with its key inputs and its renderer, the watcher, the two posting *)
(* goroutines and the background build.                                    *)

\* the key inputs of this specification: a view switch and quit
ViewerKeys == {"m", "q"}

\* the lengths of the store's history at which an agent writes once more
ViewerWrites == {1, 2}

\* what the store holds apart from its handle being open or closed
StoreContent(st) ==
    [Agents |-> st.Agents, Events |-> st.Events, Locks |-> st.Locks,
     Active |-> st.Active]

\* the store the viewer is started on
ViewerStore ==
    Store(<<Agent("a1", 1), Agent("a2", 0)>>, 1..2, 2, {"main.go"},
          {Pointstamp("a1", 1), Pointstamp("a2", 0)})

\* the goroutines of main exist while the tea.Program runs
ProgramRuns == uiState \in {"running", "quitting"} /\ crash = "none"

\* main, --json: snapshot.Build(s), s.Close(), the encoder writes, os.Exit
JsonDump ==
    /\ uiState = "json"
    /\ builds[1].pc = "done"
    /\ store' = [store EXCEPT !.open = FALSE]
    /\ frame' = IF builds[1].err THEN Frame("cmv: snapshot: error", 0, 0)
                ELSE Frame("json", 0, Len(builds[1].snap.Agents))
    /\ uiState' = "stopped"
    /\ UNCHANGED <<m, lastMsg, lastCmd, crash, storeHist, builds, watcher,
                   wHist, senders>>

VKey == \E k \in ViewerKeys : UpdateKey(k) /\ UNCHANGED nonUI

\* the agents write twice while the viewer runs
VInsertNotified == Len(storeHist) \in ViewerWrites /\ LInsertNotified

VInsertMissed == Len(storeHist) \in ViewerWrites /\ LInsertMissed

\* the program's renderer calls View(), the view being MaxLines lines long
VRender ==
    /\ UIAlive
    /\ frame' = View(m, MaxLines).frame
    /\ m' = View(m, MaxLines).m
    /\ UNCHANGED <<lastMsg, lastCmd, uiState, crash, store, storeHist, builds,
                   watcher, wHist, senders>>

VTimerExpire == ProgramRuns /\ TimerExpire

VTimerCallback == ProgramRuns /\ TimerCallback

VAdvance == ProgramRuns /\ LAdvance

VFwdRecv == ProgramRuns /\ FwdRecv

VPollTick == ProgramRuns /\ PollTick

VBuild == uiState # "stopped" /\ LBuild

InitViewer ==
    /\ store = ViewerStore
    /\ storeHist = <<store>>
    /\ lastMsg = "none"
    /\ lastCmd = "none"
    /\ frame = NoFrame
    /\ crash = "none"
    /\ wHist = NoBurst
    /\ senders = {}
    /\ \/ /\ uiState = "running"
          /\ m = UpdateWindowSize(newModel(BuildAt(store, 0), 0), 80, 24)
          /\ builds = <<IdleBuild>>
          /\ watcher = NewWatcher
       \/ /\ uiState = "json"
          /\ m = newModel(Nil, 0)
          /\ builds = <<[IdleBuild EXCEPT !.pc = "ListAgents", !.vStart = 1]>>
          /\ watcher = [NewWatcher EXCEPT !.watching = FALSE,
                                          !.loop = "returned"]

NextViewer ==
    \/ VInsertNotified
    \/ VInsertMissed
    \/ VAdvance
    \/ VTimerExpire
    \/ VTimerCallback
    \/ LoopReturn
    \/ VFwdRecv
    \/ VPollTick
    \/ LoopDbChanged
    \/ LSnapshotReady
    \/ VBuild
    \/ VKey
    \/ UIQuits
    \/ VRender
    \/ JsonDump

SpecViewer == InitViewer /\ [][NextViewer]_vars

\* C11: the viewer never writes the store: whatever the build, the watcher,
\* the UI loop, the renderer and the JSON dump have done, the store holds
\* what the last write of an agent left in it.
C11_ViewerIsReadOnly ==
    StoreContent(store) = StoreContent(storeHist[Len(storeHist)])

C11_Witness ==
    /\ Len(storeHist) > 1
    /\ ~store.open
    /\ uiState = "stopped"
    /\ frame.out \notin {"none", "json"}
    /\ lastMsg = "KeyMsg"
    /\ builds[1].pc = "done"
    /\ watcher.loop = "returned"

\* a background build has been started and has not returned yet
InFlight(i) == builds[i].pc \notin {"idle", "done"}

\* C12: the model (navigation state and snapshot) changes only in steps of
\* the UI loop, never in a step of the watcher, its timer or the two posting
\* goroutines; Update(dbChangedMsg) leaves the model as it is and returns the
\* build command, the build having read nothing yet when Update returns; and
\* while a build is in flight the UI loop can take a key, which takes effect.
C12_UILoopNeverWaits ==
    /\ [][m' # m => (VKey \/ LSnapshotReady)]_vars
    /\ [][(VFwdRecv \/ VPollTick \/ VTimerExpire \/ VTimerCallback
             \/ VAdvance \/ LoopReturn \/ VInsertNotified \/ VBuild)
            => UNCHANGED <<m, lastMsg, lastCmd, uiState>>]_vars
    /\ [][LoopDbChanged
            => /\ m' = m
               /\ lastCmd' = "refreshSnapshot"
               /\ \E i \in DOMAIN builds :
                      builds[i].pc = "idle" /\ builds'[i].pc = "ListAgents"]_vars
    /\ []((uiState = "running" /\ crash = "none"
             /\ \E i \in DOMAIN builds : InFlight(i))
            => ENABLED (UpdateKey("m") /\ UNCHANGED nonUI))
    /\ [][(UpdateKey("m") /\ UNCHANGED nonUI
             /\ \E i \in DOMAIN builds : InFlight(i))
            => /\ m'.activeView = viewMessages
               /\ builds' = builds]_vars

C12_Witness ==
    /\ InFlight(1)
    /\ builds[1].pc = "ListLocks"
    /\ lastMsg = "KeyMsg"
    /\ lastCmd = "none"
    /\ m.activeView = viewMessages
    /\ "poll" \in senders

-----------------------------------------------------------------------------
(* Closing the watcher *)

\* C13: whatever the watcher has pending when Close is called (nothing, an
\* unconsumed signal, an armed timer, a callback about to run), Close can be
\* taken, nothing panics, a callback that has been started can always run,
\* and the loop returns.
C13_CloseIsSafe ==
    /\ [](crash = "none")
    /\ [](~watcher.done => ENABLED WatcherClose)
    /\ [](watcher.cb > 0 => ENABLED TimerCallback)
    /\ [](watcher.loop = "returned" => watcher.done)
    /\ (watcher.done ~> watcher.loop = "returned")

C13_Witness ==
    /\ wHist.atClose = "firing"
    /\ watcher.loop = "returned"
    /\ watcher.cb = 0
    /\ watcher.onChange = 1
    /\ crash = "none"

\* Close has been called, the loop has returned, and the loop took no
\* notification in between
LoopGone ==
    /\ watcher.done
    /\ watcher.loop = "returned"
    /\ wHist.last = "closed"

\* C14: once the watcher is closed and its loop has returned, a timer that
\* was armed when Close was called is no longer pending, and no signal is
\* put on the output channel any more.
C14_ShutdownLeaksNothing ==
    /\ []((LoopGone /\ wHist.atClose = "pending")
            => (watcher.timer # "armed" /\ watcher.cb = 0))
    /\ [][LoopGone => watcher'.onChange <= watcher.onChange]_vars

-----------------------------------------------------------------------------
(* Which notifications count *)

\* the notifications that are to arm the timer: a write to or a creation of
\* the store's file, its "-wal" file or its "-shm" file
StoreFileWritten(ev) ==
    /\ ev.Name.base \in {dbBase, dbBase \o <<"-wal">>, dbBase \o <<"-shm">>}
    /\ ("Write" \in ev.Op \/ "Create" \in ev.Op)

\* C15: a notification arms the debounce timer if it is a write to or a
\* creation of one of the three store files; any other notification leaves
\* the watcher as it is, and a signal is only ever sent after a timer was
\* armed by one of the former.
C15_OnlyStoreFilesArm ==
    /\ [][\A ev \in FsEvents :
            LoopEvent(ev)
              => IF StoreFileWritten(ev)
                 THEN /\ watcher'.timer = "armed"
                      /\ watcher'.remaining = debounce
                      /\ wHist'.last = "armed"
                 ELSE /\ watcher' = watcher
                      /\ wHist'.last = "ignored"]_vars
    /\ [][(watcher'.timer = "armed" /\ watcher.timer # "armed")
            => \E ev \in FsEvents : StoreFileWritten(ev) /\ LoopEvent(ev)]_vars
    /\ []((watcher.onChange > 0 \/ watcher.cb > 0 \/ wHist.sent > 0)
            => wHist.n > 0)

C15_Witness ==
    /\ wHist.last = "ignored"
    /\ watcher.timer = "nil"
    /\ watcher.onChange = 0
    /\ wHist.n = 0
    /\ wHist.sinceLast = 0

-----------------------------------------------------------------------------
(* Navigation: the key inputs of Update *)

\* the view each view-switch key stands for
ViewOfKey ==
    [k \in {"d", "m", "l", "f", "t", "s"} |->
        IF k = "d" THEN viewDashboard
        ELSE IF k = "m" THEN viewMessages
        ELSE IF k = "l" THEN viewLocks
        ELSE IF k = "f" THEN viewFrontier
        ELSE IF k = "t" THEN viewTimeline
        ELSE viewDiagram]

\* C16: in every view, Agent-Detail included, each of the keys d, m, l, f,
\* t, s makes its view the active one, sets the scroll offset to zero and
\* clears the detail agent; the selection index and the snapshot stay.
C16_ViewKeysJump ==
    \A k \in DOMAIN ViewOfKey :
        LET after == UpdateKeyMsg(m, k)
        IN  /\ after.activeView = ViewOfKey[k]
            /\ after.scrollPos = 0
            /\ after.detailAgentID = ""
            /\ after.selectedAgent = m.selectedAgent
            /\ after.snap = m.snap
            /\ KeyCmd(k) = "none"

C16_Witness ==
    /\ lastMsg = "KeyMsg"
    /\ lastCmd = "none"
    /\ m.activeView = viewDiagram
    /\ m.prevView = viewDashboard
    /\ m.scrollPos = 0
    /\ m.detailAgentID = ""
    /\ m.selectedAgent = 1
    /\ m.showHelp

\* the six views Tab cycles through, in their order
CyclicOrder ==
    <<viewDashboard, viewMessages, viewLocks, viewFrontier, viewTimeline,
      viewDiagram>>

\* the position of a view in the cycle
PlaceOf(v) == CHOOSE i \in DOMAIN CyclicOrder : CyclicOrder[i] = v

\* the model after n Tab keys
RECURSIVE Tabs(_, _)
Tabs(mm, n) == IF n = 0 THEN mm ELSE Tabs(UpdateKeyMsg(mm, "tab"), n - 1)

\* C17: in one of the six cyclic views Tab moves to the view that follows in
\* the order Dashboard, Messages, Locks, Frontier, Timeline, Diagram, from
\* Diagram to Dashboard, with the scroll offset at zero; the view it leads
\* to is one of the six, and six Tabs lead back to the view they began in.
C17_TabCycles ==
    m.activeView \in {CyclicOrder[i] : i \in DOMAIN CyclicOrder}
        => LET after == UpdateKeyMsg(m, "tab")
               i == PlaceOf(m.activeView)
           IN  /\ after.activeView =
                      CyclicOrder[IF i = Len(CyclicOrder) THEN 1 ELSE i + 1]
               /\ after.activeView # viewAgentDetail
               /\ after.scrollPos = 0
               /\ \A n \in 1..5 : Tabs(m, n).activeView # m.activeView
               /\ Tabs(m, 6).activeView = m.activeView

C17_Witness ==
    /\ lastMsg = "KeyMsg"
    /\ lastCmd = "none"
    /\ m.activeView = viewDashboard
    /\ m.prevView = viewDashboard
    /\ m.detailAgentID = ""
    /\ m.showHelp
    /\ m.selectedAgent = 1
    /\ m.scrollPos = 0
    /\ m.width = 120

\* C18: in Agent-Detail both Tab and Esc lead to Dashboard with no detail
\* agent and the scroll offset at zero; in every other view Esc returns the
\* model as it was.
C18_DetailTabEscGoBack ==
    IF m.activeView = viewAgentDetail
    THEN \A k \in {"tab", "esc"} :
             LET after == UpdateKeyMsg(m, k)
             IN  /\ after.activeView = viewDashboard
                 /\ after.detailAgentID = ""
                 /\ after.scrollPos = 0
    ELSE UpdateKeyMsg(m, "esc") = m

C18_Witness ==
    /\ lastMsg = "KeyMsg"
    /\ lastCmd = "none"
    /\ m.activeView = viewDashboard
    /\ m.prevView = viewDashboard
    /\ m.detailAgentID = ""
    /\ m.scrollPos = 0
    /\ m.selectedAgent = 1
    /\ m.snap # Nil
    /\ Len(m.snap.Agents) = 2
    /\ ~m.showHelp

\* the agents the active snapshot lists
AgentCount == IF m.snap = Nil THEN 0 ELSE Len(m.snap.Agents)

\* C19: Enter on Dashboard with an agent under the selection index opens
\* Agent-Detail on that agent, the scroll offset at zero; with no agent
\* listed, or none under the index, Enter returns the model as it was.
C19_EnterOpensSelectedAgent ==
    m.activeView = viewDashboard
        => LET after == UpdateKeyMsg(m, "enter")
           IN  IF AgentCount >= 1 /\ m.selectedAgent \in 0..(AgentCount - 1)
               THEN /\ after.activeView = viewAgentDetail
                    /\ after.detailAgentID = m.snap.Agents[m.selectedAgent + 1].ID
                    /\ after.scrollPos = 0
                    /\ after.snap = m.snap
                    /\ after.selectedAgent = m.selectedAgent
               ELSE after = m

C19_Witness ==
    /\ lastMsg = "KeyMsg"
    /\ m.activeView = viewAgentDetail
    /\ m.detailAgentID = "a1"
    /\ m.selectedAgent = 0
    /\ m.scrollPos = 0
    /\ m.width = 120
    /\ m.showHelp
    /\ Len(m.snap.Agents) = 2

\* C20: a step that leads into Agent-Detail from another view is the Enter
\* key handled in Dashboard; nothing else leads into it, and a run is in
\* Agent-Detail otherwise only if --agent put it there at startup.
C20_DetailOnlyByEnter ==
    [][(m'.activeView = viewAgentDetail /\ m.activeView # viewAgentDetail)
         => /\ m.activeView = viewDashboard
            /\ UpdateKey("enter")
            /\ m'.detailAgentID = m.snap.Agents[m.selectedAgent + 1].ID]_vars

C20_Witness ==
    /\ lastMsg = "KeyMsg"
    /\ m.activeView = viewAgentDetail
    /\ m.detailAgentID = "a1"
    /\ m.selectedAgent = 0
    /\ m.prevView = viewDashboard
    /\ m.filterAgent = ""
    /\ m.height = 24
    /\ m.lastRefresh = 1
    /\ Len(m.snap.Agents) = 1

\* C21: on Dashboard, Down moves the selection index one agent on unless it
\* is on the last agent or no agent is listed, Up moves it one agent back
\* unless it is on the first; the index stays between the first and the last
\* agent, and neither key touches the scroll offset or anything else.
C21_DashboardCursorSaturates ==
    m.activeView = viewDashboard
        => /\ \A k \in keys.Down :
                  UpdateKeyMsg(m, k) =
                      [m EXCEPT !.selectedAgent =
                           IF AgentCount = 0 \/ @ = AgentCount - 1
                           THEN @ ELSE @ + 1]
           /\ \A k \in keys.Up :
                  UpdateKeyMsg(m, k) =
                      [m EXCEPT !.selectedAgent = IF @ = 0 THEN 0 ELSE @ - 1]
           /\ \A k \in keys.Up \cup keys.Down :
                  UpdateKeyMsg(m, k).selectedAgent \in 0..Max(AgentCount - 1, 0)

C21_Witness ==
    /\ lastMsg = "KeyMsg"
    /\ lastCmd = "none"
    /\ m.activeView = viewDashboard
    /\ m.selectedAgent = 1
    /\ AgentCount = 2
    /\ m.scrollPos = 0
    /\ m.detailAgentID = ""
    /\ m.height = 24
    /\ m.lastRefresh = 1

\* the largest scroll offset Down leads to with the active snapshot
ScrollBound ==
    (m.snap.TotalEvents + Len(m.snap.Agents) + Cardinality(m.snap.Locks)) * 8
        + 20

\* C22: in a view other than Dashboard, Up takes one from the scroll offset
\* unless it is 0, Down adds one unless the offset has reached
\* (TotalEvents + agents + locks) * 8 + 20 of the active snapshot; neither
\* changes anything else, and a step by one of them that starts within the
\* bound ends within it.
C22_ScrollSaturates ==
    /\ m.scrollPos >= 0
    /\ m.activeView # viewDashboard
         => /\ \A k \in keys.Up :
                   UpdateKeyMsg(m, k) =
                       [m EXCEPT !.scrollPos = IF @ = 0 THEN 0 ELSE @ - 1]
            /\ \A k \in keys.Down :
                   UpdateKeyMsg(m, k) =
                       [m EXCEPT !.scrollPos = IF @ >= ScrollBound THEN @
                                               ELSE @ + 1]
            /\ \A k \in keys.Up \cup keys.Down :
                   m.scrollPos <= ScrollBound
                     => UpdateKeyMsg(m, k).scrollPos \in 0..ScrollBound

C22_Witness ==
    /\ lastMsg = "KeyMsg"
    /\ m.activeView = viewLocks
    /\ m.scrollPos = ScrollBound
    /\ ScrollBound = 44

\* the model after n presses of the filter key
RECURSIVE Toggles(_, _)
Toggles(mm, n) == IF n = 0 THEN mm ELSE Toggles(UpdateKeyMsg(mm, "/"), n - 1)

\* C23: in Messages and in Timeline, from no filter, the j-th press of the
\* filter key sets the filter to the j-th agent of the snapshot and the press
\* after the last agent clears it (with no agents it stays clear); in every
\* other view the key returns the model as it was.
C23_FilterCycles ==
    IF m.activeView \in {viewMessages, viewTimeline}
    THEN m.filterAgent = ""
           => /\ \A j \in 1..AgentCount :
                     Toggles(m, j).filterAgent = m.snap.Agents[j].ID
              /\ Toggles(m, AgentCount + 1).filterAgent = ""
              /\ \A j \in 0..(AgentCount + 1) :
                     /\ Toggles(m, j).snap = m.snap
                     /\ Toggles(m, j).activeView = m.activeView
    ELSE UpdateKeyMsg(m, "/") = m

C23_Witness ==
    /\ lastMsg = "KeyMsg"
    /\ m.activeView = viewTimeline
    /\ m.filterAgent = "a2"
    /\ AgentCount = 2
    /\ m.scrollPos = 0

\* C24: a view-switch key, or Tab, that leads to a view other than Messages
\* and Timeline returns a model with no agent filter; a view-switch key pressed
\* in Messages or Timeline that leads to Messages or Timeline returns the
\* filter as it was.
C24_FilterClearedOnLeave ==
    /\ \A k \in DOMAIN viewKeys \cup keys.Tab :
           UpdateKeyMsg(m, k).activeView \notin {viewMessages, viewTimeline}
               => UpdateKeyMsg(m, k).filterAgent = ""
    /\ \A k \in DOMAIN viewKeys :
           /\ m.activeView \in {viewMessages, viewTimeline}
           /\ viewKeys[k] \in {viewMessages, viewTimeline}
           => UpdateKeyMsg(m, k).filterAgent = m.filterAgent

C24_Witness ==
    /\ lastMsg = "KeyMsg"
    /\ m.activeView = viewMessages
    /\ m.filterAgent = "a2"
    /\ UpdateKeyMsg(m, "t").filterAgent = "a2"
    /\ UpdateKeyMsg(m, "tab").filterAgent = ""
    /\ UpdateKeyMsg(m, "l").filterAgent = ""

-----------------------------------------------------------------------------
(* cmd/cmv/main.go: the Timeline and the Diagram view *)

\* longest event list of a snapshot in SpecTimeline
MaxEvents == 3

\* model.EventKind (github.com/daviddao/clockmail/pkg/model); "note" stands
\* for a kind the viewer has no case for
EventMsg == "msg"
EventLockReq == "lock_req"
EventLockRel == "lock_rel"
EventProgress == "progress"

\* model.Event: the body, the epoch, the round and the time are left out
Event(id, agent, ts, kind, target) ==
    [ID |-> id, AgentID |-> agent, LamportTS |-> ts, Kind |-> kind,
     Target |-> target]

\* the target of an event of a kind: the receiver of a message (the other
\* agent), the path of a lock, nothing for a heartbeat
TargetOf(agent, kind) ==
    IF kind = EventMsg THEN CHOOSE a \in AgentIDs : a # agent
    ELSE IF kind \in {EventLockReq, EventLockRel} THEN "main.go"
    ELSE ""

\* an event list of a snapshot: the store numbers the events in the order
\* of the list; f gives the agent, the clock and the kind of each (the clocks
\* are those of the writing agents, in any order)
EventList(f) ==
    [i \in DOMAIN f |-> Event(i, f[i][1], f[i][2], f[i][3],
                              TargetOf(f[i][1], f[i][3]))]

EventChoices(n, clocks, kinds) == [1..n -> AgentIDs \X clocks \X kinds]

\* the events the Timeline is rendered for, and those of the Diagram
TimelineChoices(n) ==
    EventChoices(n, {1, 2}, {EventMsg, EventLockReq, EventProgress, "note"})

DiagramChoices(n) == EventChoices(n, {1, 2, 3}, {EventMsg, EventLockRel})

eventMatchesAgent(e, agent) ==
    IF agent = "" THEN TRUE
    ELSE e.AgentID = agent \/ e.Target = agent

timelineGroup(ts, events) == [lamportTS |-> ts, events |-> events]

\* groupByLamport: the body of the loop, from event i on
RECURSIVE groupLoop(_, _, _, _)
groupLoop(events, i, groups, current) ==
    IF i > Len(events) THEN Append(groups, current)
    ELSE LET e == events[i]
             flush == e.LamportTS # current.lamportTS
             gs == IF flush THEN Append(groups, current) ELSE groups
             cur == IF flush THEN timelineGroup(e.LamportTS, <<>>) ELSE current
         IN  groupLoop(events, i + 1, gs, [cur EXCEPT !.events = Append(@, e)])

\* a grouping that never closes a group: one group holds every event
groupByLamportOneGroup(events) ==
    IF Len(events) = 0 THEN <<>>
    ELSE <<timelineGroup(events[1].LamportTS, events)>>

groupByLamport(events) ==
    IF Len(events) = 0 THEN <<>>
    ELSE groupLoop(events, 1, <<>>, timelineGroup(events[1].LamportTS, <<>>))

\* a flag raised by every group of two events or more
isConcurrentGroupBySize(g) == Len(g.events) > 1

isConcurrentGroup(g) ==
    IF Len(g.events) <= 1 THEN FALSE
    ELSE \E i \in 2..Len(g.events) : g.events[i].AgentID # g.events[1].AgentID

\* a causal set of the events of every kind
buildCausalSetAnyKind(events) == {events[i].ID : i \in DOMAIN events}

\* buildCausalSet: the ids that map to true
buildCausalSet(events) ==
    {events[i].ID : i \in {j \in DOMAIN events : events[j].Kind = EventMsg}}

\* renderTimeline: the events left by the agent filter
filteredEvents(mm) ==
    IF mm.filterAgent # ""
    THEN SelectSeq(mm.snap.Events,
                   LAMBDA e : eventMatchesAgent(e, mm.filterAgent))
    ELSE mm.snap.Events

\* renderTimeline: the lines of one group; a line is the event with its
\* concurrency marker and its causal mark
groupLines(g, causalIDs) ==
    LET concurrent == isConcurrentGroup(g)
    IN  [ei \in 1..Len(g.events) |->
            [event  |-> g.events[ei],
             marker |-> IF concurrent
                        THEN IF ei = 1 THEN "top"
                             ELSE IF ei = Len(g.events) THEN "bottom"
                             ELSE "middle"
                        ELSE "none",
             causal |-> g.events[ei].ID \in causalIDs]]

\* renderTimeline: the groups from gi down to the first, most recent first
RECURSIVE timelineLines(_, _, _)
timelineLines(groups, gi, causalIDs) ==
    IF gi = 0 THEN <<>>
    ELSE groupLines(groups[gi], causalIDs)
             \o timelineLines(groups, gi - 1, causalIDs)

TimelineFrame(filter, groups, lines) ==
    [out |-> "Timeline", filter |-> filter, groups |-> groups, lines |-> lines]

\* a timeline that groups and marks the events of the whole snapshot and
\* hides the lines the filter rejects afterwards
renderTimelineFilterLast(mm) ==
    LET groups == groupByLamport(mm.snap.Events)
        causalIDs == buildCausalSet(mm.snap.Events)
        lines == timelineLines(groups, Len(groups), causalIDs)
    IN  TimelineFrame(mm.filterAgent, groups,
                      SelectSeq(lines, LAMBDA l :
                                    eventMatchesAgent(l.event, mm.filterAgent)))

renderTimeline(mm) ==
    LET events == filteredEvents(mm)
    IN  IF Len(events) = 0
        THEN TimelineFrame(mm.filterAgent, <<>>, <<>>)
        ELSE LET groups == groupByLamport(events)
                 causalIDs == buildCausalSet(events)
             IN  TimelineFrame(mm.filterAgent, groups,
                               timelineLines(groups, Len(groups), causalIDs))


\* buildDiagramData: the label of a cell
diagramLabel(kind) ==
    CASE kind = EventMsg      -> ">"
      [] kind = EventLockReq  -> "L"
      [] kind = EventLockRel  -> "U"
      [] kind = EventProgress -> "*"
      [] OTHER                -> "?"

diagramCell(e) == [event |-> e, label |-> diagramLabel(e.Kind)]

diagramMsg(e) == [fromAgent |-> e.AgentID, toAgent |-> e.Target]

\* buildDiagramData: the loop over the events, from event i on; rowMap maps
\* the clock values seen so far to their rows, timestamps lists them in the
\* order of their first occurrence
RECURSIVE diagramLoop(_, _, _, _)
diagramLoop(events, i, rowMap, timestamps) ==
    IF i > Len(events) THEN [rowMap |-> rowMap, timestamps |-> timestamps]
    ELSE LET e == events[i]
             ts == e.LamportTS
             ok == ts \in DOMAIN rowMap
             row == IF ok THEN rowMap[ts]
                    ELSE [lamportTS |-> ts,
                          cells     |-> [a \in {} |-> diagramCell(e)],
                          messages  |-> <<>>]
             cells == [a \in DOMAIN row.cells \cup {e.AgentID} |->
                          IF a = e.AgentID THEN diagramCell(e)
                          ELSE row.cells[a]]
             messages == IF e.Kind = EventMsg /\ e.Target # ""
                         THEN Append(row.messages, diagramMsg(e))
                         ELSE row.messages
             row2 == [row EXCEPT !.cells = cells, !.messages = messages]
         IN  diagramLoop(events, i + 1,
                         [t \in DOMAIN rowMap \cup {ts} |->
                             IF t = ts THEN row2 ELSE rowMap[t]],
                         IF ok THEN timestamps ELSE Append(timestamps, ts))

\* sortInt64s: the inner loop, element j sinking while it is smaller than
\* its left neighbour (j counts from 1)
RECURSIVE sortInner(_, _)
sortInner(s, j) ==
    IF j > 1 /\ s[j] < s[j - 1]
    THEN sortInner([s EXCEPT ![j] = s[j - 1], ![j - 1] = s[j]], j - 1)
    ELSE s

RECURSIVE sortOuter(_, _)
sortOuter(s, i) ==
    IF i > Len(s) THEN s ELSE sortOuter(sortInner(s, i), i + 1)

\* a sort that leaves the slice in the order of insertion
sortInt64sNot(s) == s

sortInt64s(s) == sortOuter(s, 2)

buildDiagramData(agents, events) ==
    LET agentOrder == [i \in 1..Len(agents) |-> agents[i].ID]
        built == diagramLoop(events, 1, [t \in {} |-> 0], <<>>)
        timestamps == sortInt64s(built.timestamps)
    IN  [agentOrder |-> agentOrder,
         rows |-> [i \in 1..Len(timestamps) |-> built.rowMap[timestamps[i]]]]

DiagramFrame(agentOrder, rows) ==
    [out |-> "Diagram", agentOrder |-> agentOrder, rows |-> rows]

\* renderDiagram: the data the diagram is drawn from
renderDiagram(mm) ==
    IF Len(mm.snap.Events) = 0 THEN DiagramFrame(<<>>, <<>>)
    ELSE LET d == buildDiagramData(mm.snap.Agents, mm.snap.Events)
         IN  DiagramFrame(d.agentOrder, d.rows)

-----------------------------------------------------------------------------
(* The Timeline and the Diagram rendered for every snapshot of a bounded set *)

\* the agent lists of the snapshots
AgentLists == {<<Agent("a1", 1), Agent("a2", 0)>>,
               <<Agent("a2", 0), Agent("a1", 1)>>}

\* a snapshot whose Events are the events themselves, not their ids alone
EventSnap(agents, events) ==
    DataSnapshot(agents, events, {}, {}, [a \in {} |-> TRUE], Len(events), 0)

InitTimeline ==
    /\ \/ \E n \in 0..MaxEvents, f \in {""} \cup AgentIDs :
           \E c \in TimelineChoices(n) :
              m = [newModel(EventSnap(<<Agent("a1", 1), Agent("a2", 0)>>,
                                      EventList(c)), 0)
                       EXCEPT !.activeView = viewTimeline,
                              !.width = 80,
                              !.height = 24,
                              !.filterAgent = f]
       \/ \E n \in 0..MaxEvents, ags \in AgentLists :
           \E c \in DiagramChoices(n) :
              m = [newModel(EventSnap(ags, EventList(c)), 0)
                       EXCEPT !.activeView = viewDiagram,
                              !.width = 80,
                              !.height = 24]
    /\ lastMsg = "none"
    /\ lastCmd = "none"
    /\ uiState = "running"
    /\ frame = NoFrame
    /\ crash = "none"
    /\ store = EmptyStore
    /\ storeHist = <<>>
    /\ builds = <<>>
    /\ watcher = NewWatcher
    /\ wHist = NoBurst
    /\ senders = {}

renderFrame == <<m, lastMsg, lastCmd, uiState, crash, store, storeHist, builds,
                 watcher, wHist, senders>>

\* View, case viewTimeline
RenderTimeline ==
    /\ m.activeView = viewTimeline
    /\ frame' = renderTimeline(m)
    /\ UNCHANGED renderFrame

\* View, case viewDiagram
RenderDiagram ==
    /\ m.activeView = viewDiagram
    /\ frame' = renderDiagram(m)
    /\ UNCHANGED renderFrame

NextTimeline == RenderTimeline \/ RenderDiagram

SpecTimeline == InitTimeline /\ [][NextTimeline]_vars


-----------------------------------------------------------------------------
(* Properties of the Timeline and of the Diagram *)

SortedByClock(events) ==
    \A i \in 1..(Len(events) - 1) :
        events[i].LamportTS <= events[i + 1].LamportTS

\* the events of the groups, in the order of the groups
RECURSIVE Flatten(_)
Flatten(groups) ==
    IF groups = <<>> THEN <<>>
    ELSE Head(groups).events \o Flatten(Tail(groups))

\* C25: for an event list sorted by clock, groupByLamport returns groups
\* that are non-empty, whose events all carry the clock of their group,
\* whose neighbours differ in clock, and whose events in the order of the
\* groups are the list itself; for the empty list it returns no group.  The
\* groups of a rendered timeline are those of its filtered list.
C25_GroupingLossless ==
    LET events == filteredEvents(m)
        groups == groupByLamport(events)
    IN  /\ SortedByClock(events)
            => /\ \A gi \in DOMAIN groups :
                      /\ Len(groups[gi].events) > 0
                      /\ \A ei \in DOMAIN groups[gi].events :
                             groups[gi].events[ei].LamportTS
                                 = groups[gi].lamportTS
               /\ \A gi \in 1..(Len(groups) - 1) :
                      groups[gi].lamportTS # groups[gi + 1].lamportTS
               /\ Flatten(groups) = events
        /\ events = <<>> => groups = <<>>
        /\ frame # NoFrame /\ frame.out = "Timeline" => frame.groups = groups

C25_Witness ==
    /\ frame # NoFrame
    /\ frame.out = "Timeline"
    /\ Len(m.snap.Events) = 3
    /\ m.filterAgent = ""
    /\ [i \in 1..3 |-> m.snap.Events[i].LamportTS] = <<1, 1, 2>>
    /\ Len(frame.groups) = 2
    /\ Len(frame.groups[1].events) = 2


GroupAgents(g) == {g.events[i].AgentID : i \in DOMAIN g.events}

GroupEvents(g) == {g.events[i] : i \in DOMAIN g.events}

\* C26: isConcurrentGroup is true of a group exactly when the events of the
\* group have two agent ids or more, so it is false of a group of one event
\* and of a group of events of one agent; the lines of a rendered timeline
\* carry a concurrency marker exactly in the groups it is true of.
C26_ConcurrentIffTwoAgents ==
    LET groups == groupByLamport(filteredEvents(m))
    IN  /\ \A gi \in DOMAIN groups :
               /\ isConcurrentGroup(groups[gi])
                      <=> Cardinality(GroupAgents(groups[gi])) >= 2
               /\ Len(groups[gi].events) = 1 => ~isConcurrentGroup(groups[gi])
        /\ frame # NoFrame /\ frame.out = "Timeline"
               => \A li \in DOMAIN frame.lines :
                      frame.lines[li].marker # "none"
                          <=> \E gi \in DOMAIN groups :
                                  /\ frame.lines[li].event
                                         \in GroupEvents(groups[gi])
                                  /\ Cardinality(GroupAgents(groups[gi])) >= 2

C26_Witness ==
    /\ frame # NoFrame
    /\ frame.out = "Timeline"
    /\ m.filterAgent = ""
    /\ [i \in 1..Len(m.snap.Events) |->
           <<m.snap.Events[i].AgentID, m.snap.Events[i].LamportTS>>]
           = <<<<"a1", 1>>, <<"a1", 1>>, <<"a2", 1>>>>
    /\ [i \in 1..Len(frame.lines) |-> frame.lines[i].marker]
           = <<"top", "middle", "bottom">>


\* C27: an event of the list is in the set buildCausalSet returns exactly
\* when its kind is the message kind, and a line of a rendered timeline
\* carries the causal mark exactly when its event is a message; an event of
\* another kind is unmarked also when a message shares its clock value.
C27_CausalIffMessage ==
    LET events == filteredEvents(m)
    IN  /\ \A i \in DOMAIN events :
               events[i].ID \in buildCausalSet(events)
                   <=> events[i].Kind = EventMsg
        /\ frame # NoFrame /\ frame.out = "Timeline"
               => \A li \in DOMAIN frame.lines :
                      frame.lines[li].causal
                          <=> frame.lines[li].event.Kind = EventMsg

C27_Witness ==
    /\ frame # NoFrame
    /\ frame.out = "Timeline"
    /\ m.filterAgent = ""
    /\ m.snap.Events = <<Event(1, "a1", 1, EventMsg, "a2"),
                         Event(2, "a2", 1, EventProgress, "")>>
    /\ [i \in 1..Len(frame.lines) |-> frame.lines[i].causal] = <<TRUE, FALSE>>
    /\ frame.lines[2].marker = "bottom"


\* the visible events: all of them without a filter, else
\* those sent by the filter agent or addressed to it
Visible ==
    IF m.filterAgent = "" THEN m.snap.Events
    ELSE SelectSeq(m.snap.Events,
                   LAMBDA e : e.AgentID = m.filterAgent
                                  \/ e.Target = m.filterAgent)

\* C28: the groups of a rendered timeline hold exactly the visible events, in
\* their order; a line is marked concurrent exactly when its group holds a
\* visible event of another agent, and marked causal exactly when it is a
\* visible message; what the frame shows is what renderTimeline shows for a
\* snapshot of the visible events alone with no filter.
C28_FilterBeforeGrouping ==
    frame # NoFrame /\ frame.out = "Timeline"
        => /\ Flatten(frame.groups) = Visible
           /\ {frame.lines[li].event : li \in DOMAIN frame.lines}
                  = {Visible[i] : i \in DOMAIN Visible}
           /\ Len(frame.lines) = Len(Visible)
           /\ \A li \in DOMAIN frame.lines :
                  frame.lines[li].marker # "none"
                      <=> \E gi \in DOMAIN frame.groups :
                              /\ frame.lines[li].event
                                     \in GroupEvents(frame.groups[gi])
                              /\ \E e \in GroupEvents(frame.groups[gi]) :
                                     e.AgentID # frame.lines[li].event.AgentID
           /\ LET alone == renderTimeline(
                               [m EXCEPT !.snap.Events = Visible,
                                         !.filterAgent = ""])
              IN  /\ frame.groups = alone.groups
                  /\ frame.lines = alone.lines

C28_Witness ==
    /\ frame # NoFrame
    /\ frame.out = "Timeline"
    /\ m.filterAgent = "a1"
    /\ m.snap.Events = <<Event(1, "a1", 1, EventLockReq, "main.go"),
                         Event(2, "a2", 1, EventProgress, ""),
                         Event(3, "a2", 2, EventMsg, "a1")>>
    /\ Len(frame.lines) = 2
    /\ frame.lines[2].marker = "none"
    /\ frame.lines[1].causal


\* C29: for an event list in any order, buildDiagramData returns one row for
\* each clock value of the list, the rows in strictly increasing order of
\* clock, and the agent ids in the order of the agent list; for the empty
\* list it returns no row.  A rendered diagram is drawn from these rows.
C29_DiagramRowsSorted ==
    LET events == m.snap.Events
        d == buildDiagramData(m.snap.Agents, events)
    IN  /\ Len(d.rows) = Cardinality({events[i].LamportTS : i \in DOMAIN events})
        /\ {d.rows[i].lamportTS : i \in DOMAIN d.rows}
               = {events[i].LamportTS : i \in DOMAIN events}
        /\ \A i \in 1..(Len(d.rows) - 1) :
               d.rows[i].lamportTS < d.rows[i + 1].lamportTS
        /\ d.agentOrder = [i \in 1..Len(m.snap.Agents) |-> m.snap.Agents[i].ID]
        /\ events = <<>> => d.rows = <<>>
        /\ frame # NoFrame /\ frame.out = "Diagram" /\ events # <<>>
               => frame.rows = d.rows /\ frame.agentOrder = d.agentOrder

C29_Witness ==
    /\ frame # NoFrame
    /\ frame.out = "Diagram"
    /\ [i \in 1..Len(m.snap.Events) |-> m.snap.Events[i].LamportTS]
           = <<3, 1, 3>>
    /\ [i \in 1..Len(frame.rows) |-> frame.rows[i].lamportTS] = <<1, 3>>
    /\ frame.agentOrder = <<"a2", "a1">>


-----------------------------------------------------------------------------
(* cmd/cmv/main.go: wrapText *)

\* longest text wrapped in SpecWrap, and the largest width
MaxText == 5
MaxWidth == 3

\* a text is a sequence of bytes; these are the bytes of the texts
Chars == {"a", "b", " ", "\n"}

\* strings.Split(s, "\n"): cur is the paragraph being read
RECURSIVE SplitLoop(_, _, _)
SplitLoop(s, cur, out) ==
    IF s = <<>> THEN Append(out, cur)
    ELSE IF Head(s) = "\n" THEN SplitLoop(Tail(s), <<>>, Append(out, cur))
    ELSE SplitLoop(Tail(s), Append(cur, Head(s)), out)

Split(s) == SplitLoop(s, <<>>, <<>>)

\* a loop that breaks at a space and leaves the space in the rest
RECURSIVE wrapLoopKeepSpace(_, _, _, _)
wrapLoopKeepSpace(s, width, lines, breaks) ==
    IF Len(s) = 0 THEN [lines |-> lines, breaks |-> breaks]
    ELSE IF Len(s) <= width
         THEN [lines |-> Append(lines, s), breaks |-> Append(breaks, "end")]
    ELSE LET spaces == {i \in 1..width : s[i + 1] = " "}
             cut == IF spaces = {} THEN -1
                    ELSE CHOOSE i \in spaces : \A j \in spaces : j <= i
         IN  IF cut <= 0
             THEN wrapLoopKeepSpace(SubSeq(s, width + 1, Len(s)), width,
                                    Append(lines, SubSeq(s, 1, width)),
                                    Append(breaks, "hard"))
             ELSE wrapLoopKeepSpace(SubSeq(s, cut + 1, Len(s)), width,
                                    Append(lines, SubSeq(s, 1, cut)),
                                    Append(breaks, "space"))

\* wrapParagraph: the loop.  breaks is history: how each line of lines was
\* ended, "space" (the break is at a space, which is skipped), "hard" (no
\* space to break at) or "end" (the rest fits)
RECURSIVE wrapLoop(_, _, _, _)
wrapLoop(s, width, lines, breaks) ==
    IF Len(s) = 0 THEN [lines |-> lines, breaks |-> breaks]
    ELSE IF Len(s) <= width
         THEN [lines |-> Append(lines, s), breaks |-> Append(breaks, "end")]
    ELSE LET spaces == {i \in 1..width : s[i + 1] = " "}
             cut == IF spaces = {} THEN -1
                    ELSE CHOOSE i \in spaces : \A j \in spaces : j <= i
         IN  IF cut <= 0
             THEN wrapLoop(SubSeq(s, width + 1, Len(s)), width,
                           Append(lines, SubSeq(s, 1, width)),
                           Append(breaks, "hard"))
             ELSE wrapLoop(SubSeq(s, cut + 2, Len(s)), width,
                           Append(lines, SubSeq(s, 1, cut)),
                           Append(breaks, "space"))

\* wrapParagraph with the history of its breaks
wrapRun(s, width) ==
    IF Len(s) <= width THEN [lines |-> <<s>>, breaks |-> <<"end">>]
    ELSE wrapLoop(s, width, <<>>, <<>>)

wrapParagraph(s, width) == wrapRun(s, width).lines

RECURSIVE wrapParagraphs(_, _)
wrapParagraphs(paragraphs, width) ==
    IF paragraphs = <<>> THEN <<>>
    ELSE wrapParagraph(Head(paragraphs), width)
             \o wrapParagraphs(Tail(paragraphs), width)

wrapText(s, width) ==
    wrapParagraphs(Split(s), IF width <= 0 THEN 80 ELSE width)

-----------------------------------------------------------------------------
(* wrapText applied to every text and width of a bounded set; frame holds
   the call: its arguments and, once it has returned, its lines *)

WrapCall(s, width, out, lines) ==
    [out |-> out, s |-> s, width |-> width, lines |-> lines]

InitWrap ==
    /\ \E n \in 0..MaxText, width \in 0..MaxWidth :
           \E s \in [1..n -> Chars] : frame = WrapCall(s, width, "call", <<>>)
    /\ m = newModel(Nil, 0)
    /\ lastMsg = "none"
    /\ lastCmd = "none"
    /\ uiState = "running"
    /\ crash = "none"
    /\ store = EmptyStore
    /\ storeHist = <<>>
    /\ builds = <<>>
    /\ watcher = NewWatcher
    /\ wHist = NoBurst
    /\ senders = {}

WrapText ==
    /\ frame.out = "call"
    /\ frame' = [frame EXCEPT !.out = "returned",
                              !.lines = wrapText(frame.s, frame.width)]
    /\ UNCHANGED renderFrame

NextWrap == WrapText

SpecWrap == InitWrap /\ [][NextWrap]_vars

-----------------------------------------------------------------------------
(* Properties of wrapText *)

\* the lines from line i on, a space put after each line whose break is at
\* a space and that has a line after it
RECURSIVE Rejoin(_, _, _)
Rejoin(lines, breaks, i) ==
    IF i > Len(lines) THEN <<>>
    ELSE lines[i]
             \o (IF breaks[i] = "space" /\ i < Len(lines) THEN <<" ">> ELSE <<>>)
             \o Rejoin(lines, breaks, i + 1)

NoNewline(s) == \A i \in DOMAIN s : s[i] # "\n"

\* the one case in which wrapParagraph ends a line at a space and no line
\* follows: the last byte of the text is that space
TrailingSpaceCut(run) ==
    /\ run.breaks # <<>>
    /\ run.breaks[Len(run.breaks)] = "space"

-----------------------------------------------------------------------------
(* Properties of the frontier verdicts *)

-----------------------------------------------------------------------------
(* cmd/cmv/main.go: the consumers of the frontier verdicts.  FrontierStatus
   maps an agent id to SafeToFinalize; a row is what a consumer shows of one
   agent *)

HasVerdict(snap, id) == id \in DOMAIN snap.FrontierStatus

\* the text the views show for a verdict
VerdictText(snap, id) ==
    IF snap.FrontierStatus[id] THEN "SAFE" ELSE "BLOCKED"

\* renderDashboard: fStr of every agent row
dashboardRows(snap) ==
    [i \in 1..Len(snap.Agents) |->
        [ID   |-> snap.Agents[i].ID,
         fStr |-> IF HasVerdict(snap, snap.Agents[i].ID)
                  THEN VerdictText(snap, snap.Agents[i].ID)
                  ELSE ""]]

\* renderFrontier, Per-Agent Status: one line per agent that has a verdict
RECURSIVE frontierRows(_, _)
frontierRows(snap, i) ==
    IF i > Len(snap.Agents) THEN <<>>
    ELSE (IF ~HasVerdict(snap, snap.Agents[i].ID) THEN <<>>
          ELSE <<[ID   |-> snap.Agents[i].ID,
                  fStr |-> VerdictText(snap, snap.Agents[i].ID)]>>)
             \o frontierRows(snap, i + 1)

\* renderAgentDetailFor: the Frontier line of the agent, if it is listed
detailRows(snap, agentID) ==
    IF \A i \in DOMAIN snap.Agents : snap.Agents[i].ID # agentID THEN <<>>
    ELSE <<[ID   |-> agentID,
            fStr |-> IF HasVerdict(snap, agentID)
                     THEN VerdictText(snap, agentID)
                     ELSE ""]>>

\* buildJSONOutput: the jsonAgent of every agent
buildJSONOutput(snap) ==
    [i \in 1..Len(snap.Agents) |->
        [ID    |-> snap.Agents[i].ID,
         Epoch |-> snap.Agents[i].Epoch,
         Safe  |-> IF HasVerdict(snap, snap.Agents[i].ID)
                   THEN snap.FrontierStatus[snap.Agents[i].ID]
                   ELSE FALSE]]

\* what a consumer shows of a snapshot
RowsOf(out, snap, agentID) ==
    CASE out = "Dashboard"   -> dashboardRows(snap)
      [] out = "Frontier"    -> frontierRows(snap, 1)
      [] out = "AgentDetail" -> detailRows(snap, agentID)
      [] out = "JSON"        -> buildJSONOutput(snap)

VerdictFrame(out, rows) == [out |-> out, rows |-> rows]

-----------------------------------------------------------------------------
(* The consumers applied to snapshots whose verdict map lacks agents *)

\* the verdict maps of a snapshot: any of its agents may have no entry
VerdictMaps(agents) ==
    UNION {[S -> BOOLEAN] : S \in SUBSET {agents[i].ID : i \in DOMAIN agents}}

VerdictAgentLists ==
    {<<>>} \cup {<<Agent(a, e)>> : a \in AgentIDs, e \in {0, 1}}
        \cup {<<Agent(p[1], e1), Agent(p[2], e2)>> :
                 p \in {<<"a1", "a2">>, <<"a2", "a1">>}, e1 \in {0, 1},
                 e2 \in {0, 1}}

\* the UI shows the snapshot in one of the three views, or main was started
\* with --json and dumps it
InitVerdict ==
    /\ \E ags \in VerdictAgentLists :
       \E fs \in VerdictMaps(ags) :
           LET snap == DataSnapshot(ags, {}, {}, {}, fs, 0, 0)
           IN  \/ /\ uiState = "json"
                  /\ m = newModel(snap, 0)
               \/ /\ uiState = "running"
                  /\ \E v \in {viewDashboard, viewFrontier} :
                         m = [newModel(snap, 0) EXCEPT !.activeView = v,
                                                       !.width = 80,
                                                       !.height = 24]
               \/ /\ uiState = "running"
                  /\ \E d \in AgentIDs :
                         m = [newModel(snap, 0)
                                  EXCEPT !.activeView = viewAgentDetail,
                                         !.detailAgentID = d,
                                         !.width = 80,
                                         !.height = 24]
    /\ lastMsg = "none"
    /\ lastCmd = "none"
    /\ frame = NoFrame
    /\ crash = "none"
    /\ store = EmptyStore
    /\ storeHist = <<>>
    /\ builds = <<>>
    /\ watcher = NewWatcher
    /\ wHist = NoBurst
    /\ senders = {}

\* View, case viewDashboard
RenderDashboard ==
    /\ uiState = "running"
    /\ m.activeView = viewDashboard
    /\ frame' = VerdictFrame("Dashboard", dashboardRows(m.snap))
    /\ UNCHANGED renderFrame

\* View, case viewFrontier
RenderFrontier ==
    /\ uiState = "running"
    /\ m.activeView = viewFrontier
    /\ frame' = VerdictFrame("Frontier", frontierRows(m.snap, 1))
    /\ UNCHANGED renderFrame

\* View, case viewAgentDetail
RenderAgentDetail ==
    /\ uiState = "running"
    /\ m.activeView = viewAgentDetail
    /\ frame' = VerdictFrame("AgentDetail", detailRows(m.snap, m.detailAgentID))
    /\ UNCHANGED renderFrame

\* main, --json: the encoder writes buildJSONOutput(snap)
DumpJSON ==
    /\ uiState = "json"
    /\ frame' = VerdictFrame("JSON", buildJSONOutput(m.snap))
    /\ UNCHANGED renderFrame

NextVerdict ==
    \/ RenderDashboard
    \/ RenderFrontier
    \/ RenderAgentDetail
    \/ DumpJSON

SpecVerdict == InitVerdict /\ [][NextVerdict]_vars

-----------------------------------------------------------------------------
(* Properties of the consumers of the verdicts *)

\* the snapshot with the verdict v entered for the agent
Known(snap, id, v) ==
    [snap EXCEPT !.FrontierStatus =
        [a \in DOMAIN snap.FrontierStatus \cup {id} |->
            IF a = id THEN v ELSE snap.FrontierStatus[a]]]

RowsAbout(rows, id) == SelectSeq(rows, LAMBDA r : r.ID = id)

-----------------------------------------------------------------------------
(* Properties of the cells of the Diagram *)

\* the event has its own marker in the rows: the row of its clock has a
\* cell in the column of its agent that holds this event and its label
HasOwnMarker(rows, e) ==
    \E i \in DOMAIN rows :
        /\ rows[i].lamportTS = e.LamportTS
        /\ e.AgentID \in DOMAIN rows[i].cells
        /\ rows[i].cells[e.AgentID] = diagramCell(e)

\* C33: every event of the list a diagram is drawn from has its own marker
\* in the rows of the diagram.
C33_EveryEventHasItsMarker ==
    frame # NoFrame /\ frame.out = "Diagram"
        => \A i \in DOMAIN m.snap.Events :
               HasOwnMarker(frame.rows, m.snap.Events[i])

\* what holds instead: an event has its own marker exactly when no later
\* event of the list has its agent and its clock
C33_LastOfAgentAndClockKept ==
    frame # NoFrame /\ frame.out = "Diagram"
        => \A i \in DOMAIN m.snap.Events :
               LET e == m.snap.Events[i]
               IN  HasOwnMarker(frame.rows, e)
                       <=> ~\E j \in (i + 1)..Len(m.snap.Events) :
                               /\ m.snap.Events[j].AgentID = e.AgentID
                               /\ m.snap.Events[j].LamportTS = e.LamportTS


-----------------------------------------------------------------------------
(* Properties of the groups of the Timeline for the lists Build hands over *)

\* the list is one the agents can have written: the ids ascend along the
\* list (ListEventsSinceID) and the clock of each agent ascends with them
WrittenByAgents(events) ==
    \A i, j \in DOMAIN events :
        i < j => /\ events[i].ID < events[j].ID
                 /\ events[i].AgentID = events[j].AgentID
                        => events[i].LamportTS < events[j].LamportTS

\* C34: in the timeline rendered with no filter for the events of a
\* snapshot, no clock value is the clock of two groups, so two events with
\* the same clock are in the same group.
C34_OneGroupPerClock ==
    (/\ frame # NoFrame
     /\ frame.out = "Timeline"
     /\ m.filterAgent = ""
     /\ WrittenByAgents(m.snap.Events))
        => \A gi, gj \in DOMAIN frame.groups :
               frame.groups[gi].lamportTS = frame.groups[gj].lamportTS
                   => gi = gj


-----------------------------------------------------------------------------
(* Several refresh commands in flight.  The runtime starts the command of  *)
(* every dbChangedMsg in a goroutine of its own and posts each result when *)
(* its goroutine has it, so the builds of two dbChangedMsg run side by     *)
(* side and report in either order.  The polling goroutine posts the       *)
(* requests; the writers append events and do nothing else, so a later     *)
(* state of the store is one with more events.  Two commands in flight are *)
(* the least that can report out of order.                                 *)

InitRace ==
    /\ store = EmptyStore
    /\ storeHist = <<store>>
    /\ builds = <<IdleBuild, IdleBuild>>
    /\ m = newModel(BuildAt(store, 0), 0)
    /\ lastMsg = "none"
    /\ lastCmd = "none"
    /\ uiState = "running"
    /\ frame = NoFrame
    /\ crash = "none"
    /\ watcher = NewWatcher
    /\ wHist = NoBurst
    /\ senders = {}

NextRace ==
    \/ LInsertMissed
    \/ PollTick
    \/ LoopDbChanged
    \/ LSnapshotReady
    \/ LBuild

SpecRace == InitRace /\ [][NextRace]_vars

\* C35: the snapshot the UI installs is never built from an older state of
\* the store than the snapshot it replaces: its count of events, the last
\* value Build reads, is never below that of the snapshot before it.
C35_NeverRegresses ==
    [][m'.snap.TotalEvents >= m.snap.TotalEvents]_vars


-----------------------------------------------------------------------------
(* Shutdown and rendering safety of the UI loop *)

\* C36: no quit input makes Update panic: a quit key handled after the
\* watcher was closed by an earlier one does not close its done channel again.
C36_SecondQuitIsSafe ==
    (lastMsg = "KeyMsg" /\ watcher.done) => crash = "none"


\* the startup model after a resize message with the size sz
Resized(sz) == {UpdateWindowSize(newModel(sn, 0), sz[1], sz[2]) : sn \in SampleSnaps}

\* C37: View does not panic on the content cut whatever size the last
\* resize message delivered: the frame of a model that a resize message left
\* is never the panic of lines[:contentHeight].
C37_ViewSafeForEverySize ==
    (frame # NoFrame /\ \E sz \in WindowSizes : m \in Resized(sz))
        => frame.out # PanicHeight


-----------------------------------------------------------------------------
(* Invariants of the UI model *)

\* C38: whenever an agent filter is set the active view is Messages or
\* Timeline, and no key leads from such a state to another view with the
\* filter still set.
C38_FilterOnlyInFilterableViews ==
    /\ m.filterAgent # "" => m.activeView \in {viewMessages, viewTimeline}
    /\ \A k \in KeyInputs :
           LET after == UpdateKeyMsg(m, k)
           IN  after.filterAgent # ""
                   => after.activeView \in {viewMessages, viewTimeline}

C38_Witness ==
    /\ lastMsg = "snapshotReadyMsg{snap}"
    /\ m.activeView = viewTimeline
    /\ m.filterAgent = "a2"
    /\ UpdateKeyMsg(m, "tab").activeView = viewDiagram
    /\ UpdateKeyMsg(m, "tab").filterAgent = ""
    /\ UpdateKeyMsg(m, "d").filterAgent = ""
    /\ UpdateKeyMsg(m, "enter").activeView = viewTimeline

\* C39: the detail agent id is set exactly when the active view is
\* Agent-Detail, from the model the startup options leave onwards.
C39_DetailIdIffDetailView ==
    m.detailAgentID # "" <=> m.activeView = viewAgentDetail

\* started with the agent option naming a listed agent, left with Tab
C39_Witness ==
    /\ lastMsg = "KeyMsg"
    /\ m.activeView = viewDashboard
    /\ m.detailAgentID = ""
    /\ m.selectedAgent = 1
    /\ m.prevView = viewDashboard
    /\ UpdateKeyMsg(m, "enter").activeView = viewAgentDetail
    /\ UpdateKeyMsg(m, "enter").detailAgentID = "a2"

\* the fields of the model but the snapshot, the selection and the refresh time
Place(mm) ==
    <<mm.activeView, mm.prevView, mm.width, mm.height, mm.scrollPos,
      mm.detailAgentID, mm.filterAgent, mm.showHelp>>

\* C40: a step that handles a dbChangedMsg, a tickMsg or the result of a
\* failed build leaves the model as it was; a step that handles the result of
\* a successful build changes the snapshot, the refresh time and the
\* selection, the selection only to bring it back within the agent list.
C40_FeedKeepsPlace ==
    [][/\ lastMsg' \in {"dbChangedMsg", "tickMsg", "snapshotReadyMsg{err}",
                        "snapshotReadyMsg{}"}
          => m' = m
       /\ lastMsg' = "snapshotReadyMsg{snap}"
          => /\ Place(m') = Place(m)
             /\ LET n == Len(m'.snap.Agents)
                IN  m'.selectedAgent = IF n = 0 THEN 0
                                       ELSE IF m.selectedAgent >= n THEN n - 1
                                       ELSE m.selectedAgent]_vars

C40_Witness ==
    /\ lastMsg = "snapshotReadyMsg{snap}"
    /\ m.activeView = viewTimeline
    /\ m.filterAgent = "a2"
    /\ m.scrollPos = 2
    /\ m.showHelp
    /\ Len(m.snap.Agents) = 1
    /\ m.snap.Agents[1].ID = "a1"
    /\ m.lastRefresh = MaxNow

====
